---------------------------- MODULE Spec2Model ----------------------------
(***************************************************************************)
(* Model of the planner pipeline engine: the model-client cache and the    *)
(* lazily built graph of GraphRunner / DecompRunner (runner/runner.py),    *)
(* the chain resource, the node closure and the goal -> task graph         *)
(* (runner/graph.py), the error taxonomy (common/errors.py) and the input  *)
(* projectors (prompts/planning_prompt.py).                                *)
(*                                                                         *)
(* Python values are encoded as follows.                                   *)
(*   None / x        : <<>> / <<x>>   (an optional value)                  *)
(*   dict            : a function from string keys to values               *)
(*   list, and the dict a pydantic model dumps to : PyList / PyDict        *)
(*   float temperature : tenths, as an integer (0.7 is 7)                  *)
(*   object identity : the id field, drawn from a counter                  *)
(***************************************************************************)
EXTENDS Integers, Sequences, FiniteSets, TLC

VARIABLES
    \* ---- GraphRunner (runner/runner.py) ----
    runnerClass,     \* the class of the runner: whose build_graph it has
    config,          \* self.config.runner: model_name / prompt_cache_key per node
    _llm_cache,      \* self._llm_cache: cache key -> client
    graph,           \* self.graph (None or the compiled graph)
    graph_config,    \* self.graph_config (None or the execution config)
    retriever,       \* self.retriever
    nextId,          \* the identity the next client built gets
    lastCall,        \* the last public call on the runner and what it gave back
    createCalls,     \* history: cache key -> number of create_llm calls
    returned,        \* history: cache key -> instances _get_llm has returned
    buildCalls,      \* history: number of build_graph executions
    buildFailed,     \* history: a build_graph execution has raised
    swaps,           \* history: number of set_retriever calls
    ranWith,         \* history: the <<graph, graph_config>> pairs that were run
    \* ---- LLMChainResources.run (runner/graph.py) ----
    chain,           \* the chain resource under test
    chainIn,         \* the last inputs and provider outcome handed to run
    chainOut,        \* what the last run returned or raised
    \* ---- one node executed repeatedly on one state ----
    nodeDef,         \* the make_normal_node arguments
    nstate,          \* the state the node is executed on
    nprev,           \* the state before the last execution
    nlast,           \* the last execution: outcome and result
    nruns,           \* number of completed executions
    \* ---- batch: traversals of the goal -> task graph ----
    bstate,          \* traversal -> the state it threads through the nodes
    binput,          \* traversal -> the state it was started with
    bpc,             \* traversal -> position in the graph and in the node
    blocal,          \* traversal -> the locals of the running node closure
    bresp,           \* traversal -> the provider outcomes it was given
    bruns,           \* traversal -> node -> number of executions started
    \* ---- objects built on their own: errors (common/errors.py) ----
    mappings,        \* identity -> value of the dict objects alive
    errArgs,         \* the arguments of the last error constructed
    errObj,          \* the last error constructed; details holds an identity
    \* ---- objects built on their own: clients (runner/graph.py) ----
    llmArgs,         \* the arguments of the last create_llm call
    llmObj,          \* the client it returned
    \* ---- objects built on their own: states (runner/state.py) ----
    fheap,           \* identity -> value of the list and dict objects alive
    fstates,         \* 0: the factory's base_state, n: the n-th state made;
                     \* each a dict of key -> identity of the value object
    flast,           \* the last operation on the factory or on a state
    \* ---- threads calling _get_llm on one runner (runner/runner.py) ----
    rcache,          \* self._llm_cache: cache key -> client
    rthread,         \* thread -> where it is in _get_llm, its locals, its results
    rnextId,         \* the identity of the next client constructed
    rstores,         \* the stores made to the cache, in order: key and client
    \* ---- the logging registry under get_logger (common/logger.py) ----
    _CONFIGURED,     \* the module global: basicConfig has been called
    _LOGGERS,        \* the module global: the names get_logger has set up
    loggerDict,      \* logging's registry: logger name -> the logger
    logLast,         \* the last get_logger call and the logger before it
    logCalls,        \* number of get_logger calls made
    \* ---- load on a file system (utils/file.py) ----
    files,           \* path -> content of the files that exist
    fileLast,        \* the last load call and what it returned or raised
    fileRecords,     \* number of logger.exception records load has written
    fileCalls        \* number of load calls made

runnerVars == <<runnerClass, config, _llm_cache, graph, graph_config, retriever, nextId,
                lastCall, createCalls, returned, buildCalls, buildFailed,
                swaps, ranWith>>
chainVars == <<chain, chainIn, chainOut>>
nodeVars == <<nodeDef, nstate, nprev, nlast, nruns>>
batchVars == <<bstate, binput, bpc, blocal, bresp, bruns>>
errorVars == <<mappings, errArgs, errObj>>
llmVars == <<llmArgs, llmObj>>
factoryVars == <<fheap, fstates, flast>>
raceVars == <<rcache, rthread, rnextId, rstores>>
loggerVars == <<_CONFIGURED, _LOGGERS, loggerDict, logLast, logCalls>>
fileVars == <<files, fileLast, fileRecords, fileCalls>>
restVars == <<raceVars, loggerVars, fileVars>>
unitVars == <<errorVars, llmVars, factoryVars, restVars>>
vars == <<runnerVars, chainVars, nodeVars, batchVars, unitVars>>

-----------------------------------------------------------------------------
(* Python values *)

None == <<>>
Some(x) == <<x>>
IsNone(o) == o = <<>>
\* bool(o) of an optional string: None and "" are falsy
TruthyStr(o) == o # <<>> /\ o[1] # ""
\* bool(o) of an optional number: None and 0 are falsy
TruthyNum(o) == o # <<>> /\ o[1] # 0

EmptyDict == <<>>
\* d[k] = v on a dict
DictSet(d, k, v) == [q \in DOMAIN d \cup {k} |-> IF q = k THEN v ELSE d[q]]

PyList(items) == [t |-> "list", key |-> "", items |-> items]
\* the one-field dict {key: items} (model_dump of a one-field pydantic model)
PyDict(key, items) == [t |-> "dict", key |-> key, items |-> items]

-----------------------------------------------------------------------------
(* common/enums.py *)

\* enum key (alias) -> enum value (canonical name)
ModelNames ==
    [gpt41 |-> "gpt-4.1", gpt41mini |-> "gpt-4.1-mini", gpt5 |-> "gpt-5",
     gpt5mini |-> "gpt-5-mini", gpt5nano |-> "gpt-5-nano",
     gpt4omini |-> "gpt-4o-mini", gpt4o |-> "gpt-4o"]

ModelKeys == DOMAIN ModelNames
ModelValues == {ModelNames[k] : k \in ModelKeys}
\* ModelNames(value): the member with that value
MemberOfValue(v) == CHOOSE k \in ModelKeys : ModelNames[k] = v

-----------------------------------------------------------------------------
(* common/errors.py *)

ClassParent ==
    [BaseServiceError |-> "Exception", ConfigError |-> "BaseServiceError",
     PromptLoadError |-> "BaseServiceError", ParsingError |-> "BaseServiceError",
     LLMError |-> "BaseServiceError", RateLimitExceededError |-> "LLMError",
     GraphExecutionError |-> "BaseServiceError",
     UtilsValidationError |-> "BaseServiceError",
     UtilsConfigurationError |-> "BaseServiceError",
     GraphInitializeError |-> "BaseServiceError"]

\* the class attributes each class body sets itself (None: inherited)
ClassCode ==
    [BaseServiceError |-> Some("UNKNOWN"), ConfigError |-> Some("CONFIG_ERROR"),
     PromptLoadError |-> Some("PROMPT_LOAD_ERROR"),
     ParsingError |-> Some("PARSING_ERROR"), LLMError |-> Some("LLM_ERROR"),
     RateLimitExceededError |-> Some("RATE_LIMIT_EXCEEDED"),
     GraphExecutionError |-> Some("GRAPH_EXECUTION_ERROR"),
     UtilsValidationError |-> Some("VALIDATION_ERROR"),
     UtilsConfigurationError |-> Some("UTILS_CONFIGURATION_ERROR"),
     GraphInitializeError |-> Some("GRAPH_INITIALIZE_ERROR")]

\* the statuses with ParsingError setting none of its own
ClassStatus_ParsingInherits ==
    [BaseServiceError |-> Some(500), ConfigError |-> None,
     PromptLoadError |-> None, ParsingError |-> None,
     LLMError |-> Some(502), RateLimitExceededError |-> Some(429),
     GraphExecutionError |-> Some(500), UtilsValidationError |-> Some(400),
     UtilsConfigurationError |-> Some(500), GraphInitializeError |-> Some(500)]

ClassStatus ==
    [BaseServiceError |-> Some(500), ConfigError |-> None,
     PromptLoadError |-> None, ParsingError |-> Some(422),
     LLMError |-> Some(502), RateLimitExceededError |-> Some(429),
     GraphExecutionError |-> Some(500), UtilsValidationError |-> Some(400),
     UtilsConfigurationError |-> Some(500), GraphInitializeError |-> Some(500)]

ClassDomain ==
    [BaseServiceError |-> Some("core"), ConfigError |-> None,
     PromptLoadError |-> None, ParsingError |-> None, LLMError |-> None,
     RateLimitExceededError |-> None, GraphExecutionError |-> None,
     UtilsValidationError |-> None, UtilsConfigurationError |-> None,
     GraphInitializeError |-> None]

TaxonomyClasses == DOMAIN ClassParent

\* attribute lookup along the base classes
RECURSIVE ClassAttr(_, _)
ClassAttr(table, cls) ==
    IF table[cls] # None THEN table[cls][1] ELSE ClassAttr(table, ClassParent[cls])

\* isinstance(an instance of cls, target) within the taxonomy
RECURSIVE IsSubclass(_, _)
IsSubclass(cls, target) ==
    IF cls = target THEN TRUE
    ELSE IF cls \notin TaxonomyClasses THEN FALSE
    ELSE IsSubclass(ClassParent[cls], target)

\* BaseServiceError.__init__ that takes the status of its class whatever
\* status it is given
BaseServiceError_ClassStatusOnly(cls, message, code, status, domain, details) ==
    [cls |-> cls,
     message |-> message,
     code |-> IF TruthyStr(code) THEN code[1] ELSE ClassAttr(ClassCode, cls),
     status |-> ClassAttr(ClassStatus, cls),
     domain |-> IF TruthyStr(domain) THEN domain[1] ELSE ClassAttr(ClassDomain, cls),
     details |-> IF DOMAIN details # {} THEN details ELSE EmptyDict]

\* BaseServiceError.__init__ as run for class cls
BaseServiceError(cls, message, code, status, domain, details) ==
    [cls |-> cls,
     message |-> message,
     code |-> IF TruthyStr(code) THEN code[1] ELSE ClassAttr(ClassCode, cls),
     status |-> IF TruthyNum(status) THEN status[1] ELSE ClassAttr(ClassStatus, cls),
     domain |-> IF TruthyStr(domain) THEN domain[1] ELSE ClassAttr(ClassDomain, cls),
     details |-> IF DOMAIN details # {} THEN details ELSE EmptyDict]

\* an exception of a class outside the taxonomy (openai, langchain, builtins)
ForeignError(cls) == [cls |-> cls]

-----------------------------------------------------------------------------
(* runner/graph.py: headers *)

\* int(text) of the decimal texts the provider sends in rate-limit headers
IntOfText(s) ==
    CASE s = "0" -> 0
      [] s = "7" -> 7
      [] s = "30" -> 30
      [] s = "100" -> 100

\* the keys of header_parsers
HeaderParsers ==
    {"x-ratelimit-limit-requests", "x-ratelimit-limit-tokens",
     "x-ratelimit-remaining-requests", "x-ratelimit-remaining-tokens"}

\* format_headers that hands on every header of the payload, the unrecognized
\* ones as sent
format_headers_AllHeaders(model_name, header_payload, token_usage) ==
    LET usage == {k \in {"total_tokens"} : k \in DOMAIN token_usage}
    IN  [k \in {"model_name"} \cup DOMAIN header_payload \cup usage |->
            IF k = "model_name" THEN model_name
            ELSE IF k = "total_tokens" THEN token_usage[k]
            ELSE IF k \in HeaderParsers THEN IntOfText(header_payload[k])
            ELSE header_payload[k]]

format_headers(model_name, header_payload, token_usage) ==
    LET kept == {k \in HeaderParsers : k \in DOMAIN header_payload}
        usage == {k \in {"total_tokens"} : k \in DOMAIN token_usage}
    IN  [k \in {"model_name"} \cup kept \cup usage |->
            IF k = "model_name" THEN model_name
            ELSE IF k = "total_tokens" THEN token_usage[k]
            ELSE IntOfText(header_payload[k])]

\* a headers object: a mapping (dict, httpx.Headers) or something else
HeadersObj(mapping, items) == [mapping |-> mapping, items |-> items]

\* message: [content, headers (None or a headers object), token_usage (None or dict)]
extract_headers(message, model_name) ==
    LET headers == message.headers
        token_usage == message.token_usage
        header_payload ==
            IF IsNone(headers) THEN EmptyDict
            ELSE IF headers[1].mapping THEN headers[1].items
            ELSE [raw |-> "headers"]
    IN  format_headers(model_name, header_payload,
                       IF IsNone(token_usage) THEN EmptyDict ELSE token_usage[1])

-----------------------------------------------------------------------------
(* runner/graph.py: llm *)

_DEFAULT_TEMPERATURE_ONLY_MODELS == {"gpt5", "gpt5mini", "gpt5nano"}

\* _resolve_temperature that tests the temperature for truth, so that 0.0
\* counts as none
_resolve_temperature_DropsZero(model_name, temperature) ==
    IF ~TruthyNum(temperature) THEN None
    ELSE IF model_name \in _DEFAULT_TEMPERATURE_ONLY_MODELS THEN None
    ELSE temperature

\* model_name: an enum member (its key); temperature: None or tenths
_resolve_temperature(model_name, temperature) ==
    IF IsNone(temperature) THEN None
    ELSE IF model_name \in _DEFAULT_TEMPERATURE_ONLY_MODELS THEN None
    ELSE temperature

\* a ChatOpenAI object built from llm_kwargs
ChatOpenAI(id, llm_kwargs) ==
    [id |-> id, kwargs |-> llm_kwargs, _registered_model_name |-> None]

_tag_llm_model(llm, model_name) ==
    [llm EXCEPT !._registered_model_name = Some(model_name)]

_resolve_llm_model_name(llm) ==
    IF TruthyStr(llm._registered_model_name) THEN llm._registered_model_name[1]
    ELSE IF "model" \in DOMAIN llm.kwargs /\ llm.kwargs.model # ""
         THEN llm.kwargs.model
    ELSE "unknown"

\* id: the identity of the object constructed by this call
create_llm(id, model_name, temperature, prompt_cache_key, bind_tools) ==
    LET model_name_str == ModelNames[model_name]
        extra_body == IF TruthyStr(prompt_cache_key)
                      THEN Some([prompt_cache_key |-> prompt_cache_key[1]])
                      ELSE None
        resolved_temperature == _resolve_temperature(model_name, Some(temperature))
        base == [model |-> model_name_str, include_response_headers |-> TRUE,
                 max_retries |-> 5, timeout |-> 60]
        withTemp == IF resolved_temperature # None
                    THEN DictSet(base, "temperature", resolved_temperature[1])
                    ELSE base
        llm_kwargs == IF extra_body # None
                      THEN DictSet(withTemp, "extra_body", extra_body[1])
                      ELSE withTemp
    IN  _tag_llm_model(ChatOpenAI(id, llm_kwargs), model_name_str)

-----------------------------------------------------------------------------
(* runner/graph.py: LLMChainResources *)

\* the exception classes of the provider library, each with its base class
ProviderParent ==
    [RateLimitError |-> "APIStatusError", BadRequestError |-> "APIStatusError",
     AuthenticationError |-> "APIStatusError",
     InternalServerError |-> "APIStatusError", APIStatusError |-> "APIError",
     APITimeoutError |-> "APIConnectionError",
     APIConnectionError |-> "APIError", APIError |-> "Exception"]

\* the except clause "except target" catches an exception of class cls
RECURSIVE Catches(_, _)
Catches(target, cls) ==
    IF cls = target THEN TRUE
    ELSE IF cls \notin DOMAIN ProviderParent THEN FALSE
    ELSE Catches(target, ProviderParent[cls])

\* dict(response.headers), or {"raw": str(response.headers)} when that fails
HeaderPayloadOf(response) ==
    IF IsNone(response) THEN EmptyDict
    ELSE IF response[1].headers.mapping THEN response[1].headers.items
    ELSE [raw |-> "headers"]

\* a retry-after lookup that answers "0" when there is nothing to read
RetryAfterOf_Placeholder(response) ==
    IF IsNone(response) THEN Some("0")
    ELSE IF response[1].headers.mapping
            /\ "retry-after" \in DOMAIN response[1].headers.items
         THEN Some(response[1].headers.items["retry-after"])
    ELSE Some("0")

\* getattr(response.headers, "get", lambda *_: None)("retry-after")
RetryAfterOf(response) ==
    IF IsNone(response) THEN None
    ELSE IF response[1].headers.mapping
            /\ "retry-after" \in DOMAIN response[1].headers.items
         THEN Some(response[1].headers.items["retry-after"])
    ELSE None

PydanticOutputParser(schema) == [kind |-> "pydantic", schema |-> schema]
StrOutputParser == [kind |-> "str", schema |-> ""]

\* parser.get_format_instructions(): the schema's JSON instructions
FormatInstructionsOf(schema) ==
    CASE schema = "GoalDecompNodeParser" -> "format:GoalDecompNodeParser"
      [] schema = "TaskDecompNodeParser" -> "format:TaskDecompNodeParser"

\* the single field of each output schema (prompts/planning_prompt.py)
SchemaField(schema) ==
    CASE schema = "GoalDecompNodeParser" -> "subgoals"
      [] schema = "TaskDecompNodeParser" -> "task_outputs"

returns_pydantic(cr) == cr.parser # None /\ cr.parser[1].kind = "pydantic"

\* prompts/planning_prompt.py: SubTask.skill is a Literal of these
SubTaskSkills == {"GoToObject", "PickObject", "PlaceObject"}

\* SubTask and SubGoal objects, as they are dumped
SubTask(skill, target) == [skill |-> skill, target |-> target]
SubGoal(subgoal, tasks) == [subgoal |-> subgoal, tasks |-> tasks]

\* the task entries model outputs are made of, by the name that stands for
\* them in items: t4 has a skill outside the Literal, t5 a target no
\* inventory lists
TaskEntry(name) ==
    CASE name = "t1" -> SubGoal("sg1", <<SubTask("GoToObject", "object_red_0"),
                                         SubTask("PickObject", "object_red_0")>>)
      [] name = "t2" -> SubGoal("sg2", <<SubTask("PlaceObject", "object_red_bowl_0")>>)
      [] name = "t3" -> SubGoal("sg3", <<SubTask("GoToObject", "object_red_bowl_0")>>)
      [] name = "t4" -> SubGoal("sg1", <<SubTask("OpenDoor", "object_red_0")>>)
      [] name = "t5" -> SubGoal("sg1", <<SubTask("PickObject", "object_blue_9")>>)

\* pydantic's validation of the field values of an output that has the
\* schema's shape: SubTask.skill is one of the Literal's values, SubTask.target
\* is any str; the goal schema's subgoals are any strs
FieldsValid(schema, items) ==
    IF schema = "TaskDecompNodeParser"
    THEN \A i \in DOMAIN items :
            \A j \in DOMAIN TaskEntry(items[i]).tasks :
                TaskEntry(items[i]).tasks[j].skill \in SubTaskSkills
    ELSE TRUE

\* parser.invoke(raw_output): content is [text, schema, items], schema being the
\* output schema whose shape the text has ("" for none)
ParserInvoke(parser, raw_output) ==
    IF parser.kind = "str"
    THEN [kind |-> "return", value |-> raw_output.content.text]
    ELSE IF /\ raw_output.content.schema = parser.schema
            /\ FieldsValid(parser.schema, raw_output.content.items)
    THEN [kind |-> "return",
          value |-> [cls |-> parser.schema, items |-> raw_output.content.items]]
    ELSE [kind |-> "raise", exc |-> ForeignError("OutputParserException")]

\* result.model_dump()
model_dump(obj) == PyDict(SchemaField(obj.cls), obj.items)

\* prompt.invoke(inputs): every template variable must be given
PromptInvoke(prompt, inputs) ==
    IF prompt.vars \subseteq DOMAIN inputs
    THEN [kind |-> "return", value |-> [k \in prompt.vars |-> inputs[k]]]
    ELSE [kind |-> "raise", exc |-> ForeignError("KeyError")]

\* the except clauses tried in the other order: APIStatusError first
ExceptClause_StatusFirst(cls) ==
    IF Catches("APIStatusError", cls) THEN "APIStatusError"
    ELSE IF Catches("RateLimitError", cls) THEN "RateLimitError"
    ELSE ""

\* which except clause of run, tried in source order, handles an exception of
\* class cls raised by self.llm.invoke ("" when none does)
ExceptClause(cls) ==
    IF Catches("RateLimitError", cls) THEN "RateLimitError"
    ELSE IF Catches("APIStatusError", cls) THEN "APIStatusError"
    ELSE ""

\* LLMChainResources.run; outcome is what self.llm.invoke does:
\*   [kind |-> "ok", raw |-> message] or
\*   [kind |-> "raise", exc |-> [cls, status_code, response]]
LLMChainResourcesRun(cr, inputs, outcome) ==
    LET prompt_value == PromptInvoke(cr.prompt, inputs)
        model_name == _resolve_llm_model_name(cr.llm)
    IN
    IF prompt_value.kind = "raise" THEN prompt_value
    ELSE IF outcome.kind = "raise" /\ ExceptClause(outcome.exc.cls) = "RateLimitError"
    THEN LET response == outcome.exc.response
             retry_after == RetryAfterOf(response)
             header_payload == HeaderPayloadOf(response)
             ratelimit_headers == format_headers(model_name, header_payload, EmptyDict)
         IN  [kind |-> "raise",
              exc |-> BaseServiceError("RateLimitExceededError", "Rate limit hit",
                          None, None, None,
                          [model_name |-> model_name, retry_after |-> retry_after,
                           ratelimit |-> ratelimit_headers])]
    ELSE IF outcome.kind = "raise" /\ ExceptClause(outcome.exc.cls) = "APIStatusError"
    THEN LET response == outcome.exc.response
             header_payload == HeaderPayloadOf(response)
         IN  [kind |-> "raise",
              exc |-> BaseServiceError("LLMError", "LLM call failed",
                          None, None, None,
                          [model_name |-> model_name,
                           status_code |-> outcome.exc.status_code,
                           headers |-> header_payload,
                           error |-> outcome.exc.cls])]
    ELSE IF outcome.kind = "raise"
    THEN [kind |-> "raise", exc |-> ForeignError(outcome.exc.cls)]
    ELSE LET raw_output == outcome.raw
             parsed_output == IF cr.parser # None
                              THEN ParserInvoke(cr.parser[1], raw_output)
                              ELSE [kind |-> "return", value |-> raw_output]
         IN  IF parsed_output.kind = "raise" THEN parsed_output
             ELSE [kind |-> "return", value |-> parsed_output.value,
                   headers |-> extract_headers(raw_output, model_name)]

\* PromptTemplate.from_template(prompt_text): the template and its variables
PromptTemplate(prompt_text) ==
    [text |-> prompt_text,
     vars |-> CASE prompt_text = "GOAL_DECOMP_NODE_PROMPT" ->
                      {"object_text", "user_query", "format_instructions"}
                [] prompt_text = "TASK_DECOMP_NODE_PROMPT" ->
                      {"skill_text", "object_text", "subgoals_text",
                       "format_instructions"}]

\* parser: None or a parser
_build_llm_chain(llm, prompt_text, parser, skip_parser) ==
    LET prompt == PromptTemplate(prompt_text)
        p == IF parser # None THEN parser[1] ELSE StrOutputParser
    IN  IF skip_parser
        THEN [prompt |-> prompt, llm |-> llm, parser |-> None,
              format_instructions |-> ""]
        ELSE [prompt |-> prompt, llm |-> llm, parser |-> Some(p),
              format_instructions |->
                  IF p.kind = "pydantic" THEN FormatInstructionsOf(p.schema) ELSE ""]

-----------------------------------------------------------------------------
(* What the provider can do on one self.llm.invoke *)

HdrNone == EmptyDict
HdrRetry == "retry-after" :> "30"
HdrLimits ==
    ("x-ratelimit-limit-requests" :> "100") @@ ("x-ratelimit-limit-tokens" :> "100")
    @@ ("x-ratelimit-remaining-requests" :> "7") @@ ("x-ratelimit-remaining-tokens" :> "0")
    @@ ("x-request-id" :> "req")
HdrRetryRemaining ==
    ("retry-after" :> "30") @@ ("x-ratelimit-remaining-requests" :> "0")

HeaderItemSets == {HdrNone, HdrRetry, HdrLimits, HdrRetryRemaining}

\* err.response: absent, with mapping headers, or with headers that are no mapping
Responses ==
    {None} \cup {Some([headers |-> HeadersObj(TRUE, h)]) : h \in HeaderItemSets}
           \cup {Some([headers |-> HeadersObj(FALSE, EmptyDict)])}

ProviderError(cls, status_code, response) ==
    [cls |-> cls, status_code |-> status_code, response |-> response]

\* failures that carry a provider status
StatusFailures ==
    {ProviderError("RateLimitError", Some(429), r) : r \in Responses}
    \cup {ProviderError("BadRequestError", Some(400), r) : r \in Responses \ {None}}
    \cup {ProviderError("AuthenticationError", Some(401),
                        Some([headers |-> HeadersObj(TRUE, HdrNone)]))}
    \cup {ProviderError("InternalServerError", Some(500),
                        Some([headers |-> HeadersObj(TRUE, HdrLimits)]))}

\* failures without one: the request timed out or never connected
TransportFailures ==
    {ProviderError("APITimeoutError", None, None),
     ProviderError("APIConnectionError", None, None)}

\* model outputs: text, the schema whose shape the text has, and its content
GoalText == [text |-> "goal-json", schema |-> "GoalDecompNodeParser",
             items |-> <<"sg1", "sg2">>]
GoalTextB == [text |-> "goal-json-b", schema |-> "GoalDecompNodeParser",
              items |-> <<"sg3">>]
TaskText == [text |-> "task-json", schema |-> "TaskDecompNodeParser",
             items |-> <<"t1", "t2">>]
TaskTextB == [text |-> "task-json-b", schema |-> "TaskDecompNodeParser",
              items |-> <<"t3">>]
\* a skill outside the Literal
TaskTextSkill == [text |-> "task-json-skill", schema |-> "TaskDecompNodeParser",
                  items |-> <<"t4">>]
\* a target no inventory lists
TaskTextTarget == [text |-> "task-json-target", schema |-> "TaskDecompNodeParser",
                   items |-> <<"t1", "t5">>]
MalformedText == [text |-> "not json", schema |-> "", items |-> <<>>]

Contents ==
    {GoalText, GoalTextB, TaskText, TaskTextB, TaskTextSkill, TaskTextTarget,
     MalformedText}

Message(content, headers, token_usage) ==
    [content |-> content, headers |-> headers, token_usage |-> token_usage]

Messages ==
    {Message(c, h, u) :
        c \in Contents,
        h \in {None, Some(HeadersObj(TRUE, HdrLimits)),
               Some(HeadersObj(TRUE, HdrRetryRemaining)),
               Some(HeadersObj(FALSE, EmptyDict))},
        u \in {None, Some([total_tokens |-> 100])}}

Raise(exc) == [kind |-> "raise", exc |-> exc]
Ok(raw) == [kind |-> "ok", raw |-> raw]

Outcomes ==
    {Ok(m) : m \in Messages} \cup {Raise(e) : e \in StatusFailures \cup TransportFailures}

-----------------------------------------------------------------------------
(* Specification SpecChain: chains are built and run *)

ChainModels == {"gpt41", "gpt5"}
PromptTexts == {"GOAL_DECOMP_NODE_PROMPT", "TASK_DECOMP_NODE_PROMPT"}

\* parser_output of the prompt's node (prompts/planning_prompt.py)
SchemaOfPrompt(prompt_text) ==
    CASE prompt_text = "GOAL_DECOMP_NODE_PROMPT" -> "GoalDecompNodeParser"
      [] prompt_text = "TASK_DECOMP_NODE_PROMPT" -> "TaskDecompNodeParser"

\* inputs that give every variable of the template, with or without the
\* format instructions
InputsFor(prompt_text, withFormat) ==
    LET vs == PromptTemplate(prompt_text).vars
    IN  [k \in (IF withFormat THEN vs ELSE vs \ {"format_instructions"}) |-> k]

ChainIdle == chain = None /\ chainIn = None /\ chainOut = None

\* make_normal_node's construction of its chain resource
ChainBuild ==
    \E m \in ChainModels, pt \in PromptTexts, structured \in BOOLEAN,
       skip_parser \in BOOLEAN :
        /\ chain' = Some(_build_llm_chain(
                        create_llm(1, m, 0, None, FALSE), pt,
                        IF structured
                        THEN Some(PydanticOutputParser(SchemaOfPrompt(pt)))
                        ELSE None,
                        skip_parser))
        /\ chainIn' = None
        /\ chainOut' = None
        /\ UNCHANGED <<runnerVars, nodeVars, batchVars, unitVars>>

\* one chain_resources.run(inputs)
ChainRun ==
    \E withFormat \in BOOLEAN, outcome \in Outcomes :
        /\ chain # None
        /\ LET inputs == InputsFor(chain[1].prompt.text, withFormat)
           IN  /\ chainIn' = Some([inputs |-> inputs, outcome |-> outcome])
               /\ chainOut' = Some(LLMChainResourcesRun(chain[1], inputs, outcome))
        /\ UNCHANGED <<chain, runnerVars, nodeVars, batchVars, unitVars>>

-----------------------------------------------------------------------------
(* prompts/planning_prompt.py: the input projectors *)

\* a projector's outcome: the inputs it returns, whether that dict is the
\* state's own "inputs" object, and the state as the call leaves it
Projected(value, alias, state) ==
    [kind |-> "return", value |-> value, alias |-> alias, state |-> state]
Failed(cls, state) == [kind |-> "raise", exc |-> ForeignError(cls), state |-> state]

\* a projector that fills and hands out the state's own "inputs" dict
make_goal_decomp_node_inputs_InPlace(state) ==
    LET inputs == DictSet(state.inputs, "user_query",
                          state.user_queries[Len(state.user_queries)])
    IN  Projected(inputs, TRUE, [state EXCEPT !.inputs = inputs])

make_goal_decomp_node_inputs(state) ==
    IF "object_text" \notin DOMAIN state.inputs THEN Failed("KeyError", state)
    ELSE IF Len(state.user_queries) = 0 THEN Failed("IndexError", state)
    ELSE Projected([object_text |-> state.inputs.object_text,
                    user_query |-> state.user_queries[Len(state.user_queries)]],
                   FALSE, state)

\* the text with the subgoals listed last to first
make_subgoals_text_Reversed(subgoals) ==
    <<"[">> \o [i \in 1 .. Len(subgoals) |-> subgoals[Len(subgoals) + 1 - i]] \o <<"]">>

\* "[\n" + "\n".join(subgoals) + "\n]": the lines of the text
make_subgoals_text(subgoals) == <<"[">> \o subgoals \o <<"]">>

\* d.get(k, "") on a dict of texts
GetOr(d, k, default) == IF k \in DOMAIN d THEN d[k] ELSE default

make_task_decomp_node_inputs(state) ==
    LET inputs == IF "inputs" \in DOMAIN state THEN state.inputs ELSE EmptyDict
        subgoals == IF "subgoals" \in DOMAIN state THEN state.subgoals
                    ELSE PyList(<<>>)
    IN  \* subgoals.get("subgoals", []): a list has no get
        IF subgoals.t # "dict" THEN Failed("AttributeError", state)
        ELSE Projected(
                [skill_text |-> GetOr(inputs, "skill_text", ""),
                 object_text |-> GetOr(inputs, "object_text", ""),
                 subgoals_text |->
                    make_subgoals_text(IF subgoals.key = "subgoals"
                                       THEN subgoals.items ELSE <<>>)],
                FALSE, state)

MakeInputs(make_inputs, state) ==
    CASE make_inputs = "make_goal_decomp_node_inputs" ->
            make_goal_decomp_node_inputs(state)
      [] make_inputs = "make_task_decomp_node_inputs" ->
            make_task_decomp_node_inputs(state)

-----------------------------------------------------------------------------
(* runner/graph.py: make_normal_node *)

\* the closure make_normal_node returns: its chain resource and what it captured
make_normal_node(llm, prompt_text, make_inputs, parser_output, state_key, state_append, make_outputs, modify_state, skip_parser) ==
    LET parser == IF parser_output # None
                  THEN Some(PydanticOutputParser(parser_output[1]))
                  ELSE None
    IN  [chain_resources |-> _build_llm_chain(llm, prompt_text, parser, skip_parser),
         make_inputs |-> make_inputs,
         state_key |-> state_key,
         state_append |-> state_append,
         make_outputs |-> make_outputs,
         modify_state |-> modify_state]

\* an output-transform hook a caller may pass: keep the first item only
ApplyMakeOutputs(hook, result) ==
    IF hook = None THEN result
    ELSE [result EXCEPT !.items = IF Len(@) > 1 THEN SubSeq(@, 1, 1) ELSE @]

\* a state-modification hook a caller may pass: one advances the loop
\* counter, one notes under feedback_result the result it was given and the
\* length of the history list it found
ApplyModifyState(hook, state, result) ==
    IF hook = None THEN state
    ELSE IF hook = Some("record_feedback")
    THEN DictSet(state, "feedback_result",
                 [result |-> result, history_len |-> Len(state.history.items)])
    ELSE [state EXCEPT !.feedback_loop_count = @ + 1]

\* inputs = make_inputs(state) handed on as the projector returned it
NodeProject_NoInjection(nd, state) ==
    MakeInputs(nd.make_inputs, state)

\* inputs = make_inputs(state); inputs["format_instructions"] = ...
\* The assignment writes into the dict the projector returned.
NodeProject(nd, state) ==
    LET p == MakeInputs(nd.make_inputs, state)
        cr == nd.chain_resources
    IN  IF p.kind = "raise" THEN p
        ELSE IF ~returns_pydantic(cr) THEN p
        ELSE LET inputs == DictSet(p.value, "format_instructions",
                                   cr.format_instructions)
             IN  Projected(inputs, p.alias,
                           IF p.alias THEN [p.state EXCEPT !.inputs = inputs]
                           ELSE p.state)

\* the write with the append / replace branches the wrong way round
NodeWrite_Swapped(nd, state, result) ==
    IF ~nd.state_append
    THEN IF nd.state_key \notin DOMAIN state \/ state[nd.state_key].t # "list"
         THEN Failed("AttributeError", state)
         ELSE [kind |-> "return", result |-> result,
               state |-> [state EXCEPT ![nd.state_key].items = Append(@, result)]]
    ELSE [kind |-> "return", result |-> result,
          state |-> DictSet(state, nd.state_key, result)]

\* state[state_key].append(result) or state[state_key] = result
NodeWrite(nd, state, result) ==
    IF nd.state_append
    THEN IF nd.state_key \notin DOMAIN state
         THEN Failed("KeyError", state)
         ELSE IF state[nd.state_key].t # "list"
         THEN Failed("AttributeError", state)
         ELSE [kind |-> "return", result |-> result,
               state |-> [state EXCEPT ![nd.state_key].items = Append(@, result)]]
    ELSE [kind |-> "return", result |-> result,
          state |-> DictSet(state, nd.state_key, result)]

\* the same steps with the write done before the state-modification hook
NodeFinish_WriteFirst(nd, state, value) ==
    LET transformed == ApplyMakeOutputs(nd.make_outputs, value)
        result == IF returns_pydantic(nd.chain_resources)
                  THEN model_dump(transformed) ELSE transformed
        Hooked(w) == IF w.kind = "raise" THEN w
                     ELSE [w EXCEPT !.state = ApplyModifyState(nd.modify_state, @, result)]
    IN  Hooked(NodeWrite(nd, state, result))

\* the node from the chain's return value on: hooks, flattening, the write
NodeFinish(nd, state, value) ==
    LET transformed == ApplyMakeOutputs(nd.make_outputs, value)
        result == IF returns_pydantic(nd.chain_resources)
                  THEN model_dump(transformed) ELSE transformed
        modified == ApplyModifyState(nd.modify_state, state, result)
    IN  NodeWrite(nd, modified, result)

\* what node(state) gave, with the number of chain_resources.run calls it made
\* and the inputs dict it handed to them (None when it made no call)
WithCalls(r, calls, inputs) ==
    [k \in DOMAIN r \cup {"calls", "inputs"} |->
        IF k = "calls" THEN calls ELSE IF k = "inputs" THEN inputs ELSE r[k]]

\* node(state) that calls chain_resources.run a second time when the first
\* call raised
NodeExec_Retry(nd, state, outcome) ==
    LET Second(p, r) ==
            IF r.kind = "raise"
            THEN [kind |-> "raise", exc |-> r.exc, state |-> p.state, calls |-> 2,
                  inputs |-> Some(p.value)]
            ELSE WithCalls(NodeFinish(nd, p.state, r.value), 2, Some(p.value))
        First(p, r) ==
            IF r.kind = "raise"
            THEN Second(p, LLMChainResourcesRun(nd.chain_resources, p.value, outcome))
            ELSE WithCalls(NodeFinish(nd, p.state, r.value), 1, Some(p.value))
        Run(p) ==
            IF p.kind = "raise" THEN WithCalls(p, 0, None)
            ELSE First(p, LLMChainResourcesRun(nd.chain_resources, p.value, outcome))
    IN  Run(NodeProject(nd, state))

\* node(state) that empties the output key before it lets a failure of
\* chain_resources.run out
NodeExec_ClearsOnFailure(nd, state, outcome) ==
    LET Finish(p, r) ==
            IF r.kind = "raise"
            THEN [kind |-> "raise", exc |-> r.exc,
                  state |-> DictSet(p.state, nd.state_key, PyList(<<>>)),
                  calls |-> 1, inputs |-> Some(p.value)]
            ELSE WithCalls(NodeFinish(nd, p.state, r.value), 1, Some(p.value))
        Run(p) ==
            IF p.kind = "raise" THEN WithCalls(p, 0, None)
            ELSE Finish(p, LLMChainResourcesRun(nd.chain_resources, p.value, outcome))
    IN  Run(NodeProject(nd, state))

\* node(state) with the provider doing outcome on the model call:
\* [kind |-> "return", state, result] or [kind |-> "raise", exc, state],
\* state being the caller's state object as the call leaves it, and calls
\* the number of chain_resources.run calls made
NodeExec(nd, state, outcome) ==
    LET Finish(p, r) ==
            IF r.kind = "raise"
            THEN [kind |-> "raise", exc |-> r.exc, state |-> p.state, calls |-> 1,
                  inputs |-> Some(p.value)]
            ELSE WithCalls(NodeFinish(nd, p.state, r.value), 1, Some(p.value))
        Run(p) ==
            IF p.kind = "raise" THEN WithCalls(p, 0, None)
            ELSE Finish(p, LLMChainResourcesRun(nd.chain_resources, p.value, outcome))
    IN  Run(NodeProject(nd, state))

-----------------------------------------------------------------------------
(* runner/state.py: the planning state *)

\* make_object_text(url): one "object_name" line per object the environment
\* reports
make_object_text(objects) ==
    [lines |-> [i \in DOMAIN objects |-> [object_name |-> objects[i]]]]

\* BaseStateMaker.make(user_query) with the inventory texts given
MakeState(user_query, object_text, skill_text) ==
    [user_queries |-> <<user_query>>,
     inputs |-> [object_text |-> object_text, skill_text |-> skill_text],
     subgoals |-> PyList(<<>>),
     tasks |-> PyList(<<>>)]

\* the keys of BaseStateSchema
StateKeys == {"user_queries", "inputs", "subgoals", "tasks"}

\* BaseStateMaker._make_base_state(): the value of each key
_make_base_state ==
    [user_queries |-> <<>>, inputs |-> EmptyDict,
     subgoals |-> PyList(<<>>), tasks |-> PyList(<<>>)]

\* BaseStateMaker._make_inputs() when the environment reports objects
_make_inputs(objects) ==
    [object_text |-> make_object_text(objects), skill_text |-> "skills"]

\* the identity of the next object made for key k of state s
FreshObject(heap, s, k) ==
    <<s, k, Cardinality({r \in DOMAIN heap : r[1] = s /\ r[2] = k})>>

\* a new object on the heap
Allocate(heap, r, value) ==
    [q \in DOMAIN heap \cup {r} |-> IF q = r THEN value ELSE heap[q]]

\* the value of a state dict: each key with the value of its object
StateValue(heap, top) == [k \in DOMAIN top |-> heap[top[k]]]

\* copy.copy(self.base_state): a new dict holding the same value objects
deepcopy_Shallow(heap, top, s) ==
    [heap |-> heap, top |-> top]

\* copy.deepcopy(self.base_state): a new dict s holding a new object for
\* every value (the values hold strings only)
deepcopy(heap, top, s) ==
    [heap |-> [q \in DOMAIN heap \cup {<<s, k, 0>> : k \in DOMAIN top} |->
                  IF q \in DOMAIN heap THEN heap[q] ELSE heap[top[q[2]]]],
     top |-> [k \in DOMAIN top |-> <<s, k, 0>>]]

\* BaseStateMaker.make(user_query=...) as state number s, the environment
\* reporting objects: the heap after the call and the dict returned
BaseStateMaker_make(heap, base_state, s, user_query, objects) ==
    LET Inputs(h, top, r) ==
            [heap |-> Allocate(h, r, _make_inputs(objects)),
             state |-> [top EXCEPT !.inputs = r]]
        Queries(h, top, r) ==
            Inputs(Allocate(h, r, <<user_query>>),
                   [top EXCEPT !.user_queries = r],
                   FreshObject(h, s, "inputs"))
        Copied(c) ==
            Queries(c.heap, c.top, FreshObject(c.heap, s, "user_queries"))
    IN  Copied(deepcopy(heap, base_state, s))

\* the states callers hand to invoke and batch: each has its own query and inventory
BatchInput(i) ==
    MakeState(<<"q1", "q2", "q3", "q4">>[i],
              make_object_text(<<"object_red_0", "object_red_bowl_0">>
                               \o <<<<>>, <<"object_yellow_0">>, <<"object_green_0">>,
                                     <<"object_blue_0">>>>[i]),
              "skills")

-----------------------------------------------------------------------------
(* runner/graph.py: make_decomp_plan_graph; runner/runner.py: build_graph *)

START == "__start__"
END == "__end__"

\* the edges with both nodes wired to START and no edge between them
DecompPlanEdges_Parallel ==
    {<<START, "goal_decomp">>, <<START, "task_decomp">>, <<"task_decomp", END>>}

\* the add_edge calls
DecompPlanEdges ==
    {<<START, "goal_decomp">>, <<"goal_decomp", "task_decomp">>,
     <<"task_decomp", END>>}

\* id: the identity of the compiled graph this call constructs
make_decomp_plan_graph(id, state_schema, nodes, thread_id) ==
    [graph |-> [id |-> id, state_schema |-> state_schema,
                nodes |-> [goal_decomp |-> nodes.goal_decomp,
                           task_decomp |-> nodes.task_decomp],
                edges |-> DecompPlanEdges],
     config |-> [configurable |-> [thread_id |-> thread_id]]]

\* the two make_normal_node calls of DecompRunner.build_graph, given the
\* clients _get_llm returned
DecompNodes(llmGoal, llmTask) ==
    [goal_decomp |->
        make_normal_node(llmGoal, "GOAL_DECOMP_NODE_PROMPT",
                         "make_goal_decomp_node_inputs",
                         Some("GoalDecompNodeParser"), "subgoals", FALSE,
                         None, None, FALSE),
     task_decomp |->
        make_normal_node(llmTask, "TASK_DECOMP_NODE_PROMPT",
                         "make_task_decomp_node_inputs",
                         Some("TaskDecompNodeParser"), "tasks", FALSE,
                         None, None, FALSE)]

\* the nodes an edge leads to from node n
Successors(g, n) == {e[2] : e \in {d \in g.edges : d[1] = n}}

-----------------------------------------------------------------------------
(* runner/runner.py: GraphRunner and DecompRunner *)

\* a model identifier as passed to _get_llm: a ModelNames member or a string
Member(key) == [enum |-> TRUE, name |-> key]
Str(text) == [enum |-> FALSE, name |-> text]

\* lines 51-59: the member an identifier resolves to; None when
\* ModelNames[model_name] raises KeyError
ResolveModelName(model_name) ==
    IF model_name.enum THEN Some(model_name.name)
    ELSE IF model_name.name \in ModelValues THEN Some(MemberOfValue(model_name.name))
    ELSE IF model_name.name \in ModelKeys THEN Some(model_name.name)
    ELSE None

\* _get_llm that builds a client on every call and never reads the cache
_get_llm_NoLookup(cache, id, model_name, temperature, prompt_cache_key, bind_tools) ==
    LET model_enum == ResolveModelName(model_name)
    IN  IF model_enum = None
        THEN [kind |-> "raise", exc |-> ForeignError("KeyError"), cache |-> cache,
              created |-> FALSE, nextId |-> id]
        ELSE LET cache_key == <<ModelNames[model_enum[1]], temperature,
                                prompt_cache_key, bind_tools>>
                 llm == create_llm(id, model_enum[1], temperature, prompt_cache_key, FALSE)
             IN  [kind |-> "return", llm |-> llm, key |-> cache_key,
                  cache |-> DictSet(cache, cache_key, llm), created |-> TRUE,
                  nextId |-> id + 1]

\* _get_llm whose cache key is formed from what the client is configured with:
\* the temperature create_llm passes on (the default 1.0 when it passes none)
\* and no tool-binding flag
_get_llm_EffectiveKey(cache, id, model_name, temperature, prompt_cache_key, bind_tools) ==
    LET model_enum == ResolveModelName(model_name)
        Keyed(cache_key, me) ==
            IF cache_key \in DOMAIN cache
            THEN [kind |-> "return", llm |-> cache[cache_key], key |-> cache_key,
                  cache |-> cache, created |-> FALSE, nextId |-> id]
            ELSE [kind |-> "return",
                  llm |-> create_llm(id, me, temperature, prompt_cache_key, FALSE),
                  key |-> cache_key,
                  cache |-> DictSet(cache, cache_key,
                                    create_llm(id, me, temperature, prompt_cache_key, FALSE)),
                  created |-> TRUE, nextId |-> id + 1]
        Resolved(me, t) ==
            Keyed(<<ModelNames[me], IF t = None THEN 10 ELSE t[1], prompt_cache_key,
                    FALSE>>, me)
    IN  IF model_enum = None
        THEN [kind |-> "raise", exc |-> ForeignError("KeyError"), cache |-> cache,
              created |-> FALSE, nextId |-> id]
        ELSE Resolved(model_enum[1], _resolve_temperature(model_enum[1], Some(temperature)))

\* GraphRunner._get_llm on the cache given; id is the identity a client built
\* by this call gets.  The result tells what was returned or raised, the
\* cache afterwards, whether create_llm was called and the identity the next
\* client built gets.
_get_llm(cache, id, model_name, temperature, prompt_cache_key, bind_tools) ==
    LET model_enum == ResolveModelName(model_name)
    IN  IF model_enum = None
        THEN [kind |-> "raise", exc |-> ForeignError("KeyError"), cache |-> cache,
              created |-> FALSE, nextId |-> id]
        ELSE LET cache_key == <<ModelNames[model_enum[1]], temperature,
                                prompt_cache_key, bind_tools>>
             IN  IF cache_key \in DOMAIN cache
                 THEN [kind |-> "return", llm |-> cache[cache_key], key |-> cache_key,
                       cache |-> cache, created |-> FALSE, nextId |-> id]
                 ELSE LET llm == create_llm(id, model_enum[1], temperature,
                                            prompt_cache_key, FALSE)
                      IN  [kind |-> "return", llm |-> llm, key |-> cache_key,
                           cache |-> DictSet(cache, cache_key, llm), created |-> TRUE,
                           nextId |-> id + 1]

\* the history of one _get_llm call that returned
NoteCreate(hist, g) ==
    IF g.created
    THEN DictSet(hist, g.key, IF g.key \in DOMAIN hist THEN hist[g.key] + 1 ELSE 1)
    ELSE hist
NoteReturn(hist, g) ==
    DictSet(hist, g.key,
            (IF g.key \in DOMAIN hist THEN hist[g.key] ELSE {}) \cup {g.llm.id})

\* DecompRunner.build_graph: two _get_llm calls (default temperature 0.0, no
\* tool binding), two nodes, the compiled graph.  id: the identity of the
\* next client built, graphId: that of the graph compiled; gets: the
\* _get_llm calls that returned, in order.
build_graph(cfg, cache, id, graphId) ==
    LET Compile(g1, g2) ==
            LET built == make_decomp_plan_graph(graphId, "BaseStateSchema",
                             DecompNodes(g1.llm, g2.llm), "decomp_planning")
            IN  [kind |-> "return", graph |-> Some(built.graph),
                 graph_config |-> Some(built.config), cache |-> g2.cache,
                 nextId |-> g2.nextId, gets |-> <<g1, g2>>]
        TaskLlm(g1, g2) ==
            IF g2.kind = "raise"
            THEN [kind |-> "raise", exc |-> g2.exc, cache |-> g2.cache,
                  nextId |-> g2.nextId, gets |-> <<g1>>]
            ELSE Compile(g1, g2)
        GoalLlm(g1) ==
            IF g1.kind = "raise"
            THEN [kind |-> "raise", exc |-> g1.exc, cache |-> g1.cache,
                  nextId |-> g1.nextId, gets |-> <<>>]
            ELSE TaskLlm(g1, _get_llm(g1.cache, g1.nextId,
                                      Str(cfg.task_decomp_node.model_name), 0,
                                      cfg.task_decomp_node.prompt_cache_key, FALSE))
    IN  GoalLlm(_get_llm(cache, id, Str(cfg.goal_decomp_node.model_name), 0,
                         cfg.goal_decomp_node.prompt_cache_key, FALSE))

\* self.build_graph() by the class of the runner: GraphRunner's own raises
\* NotImplementedError, DecompRunner's builds the pipeline, and the other
\* classes stand for subclasses whose build_graph returns a pair with None
\* for the graph, for the execution config or for both
RunnerClasses ==
    {"GraphRunner", "DecompRunner", "NoGraphRunner", "NoConfigRunner", "NothingRunner"}
SelfBuildGraph ==
    LET Drop(b) ==
            IF b.kind = "raise" THEN b
            ELSE [b EXCEPT !.graph = IF runnerClass \in {"NoGraphRunner", "NothingRunner"}
                                     THEN None ELSE @,
                           !.graph_config =
                               IF runnerClass \in {"NoConfigRunner", "NothingRunner"}
                               THEN None ELSE @]
    IN  IF runnerClass = "GraphRunner"
        THEN [kind |-> "raise", exc |-> ForeignError("NotImplementedError"),
              cache |-> _llm_cache, nextId |-> nextId, gets |-> <<>>]
        ELSE Drop(build_graph(config, _llm_cache, nextId, buildCalls + 1))

\* _ensure_graph that raises the error of a failed traversal where the
\* graph was not built
_ensure_graph_WrongError ==
    LET Check(b) ==
            IF b.kind = "raise"
            THEN [kind |-> "raise", exc |-> b.exc, built |-> TRUE,
                  graph |-> graph, graph_config |-> graph_config,
                  cache |-> b.cache, nextId |-> b.nextId, gets |-> b.gets]
            ELSE IF b.graph = None \/ b.graph_config = None
            THEN [kind |-> "raise",
                  exc |-> BaseServiceError("GraphExecutionError",
                             "Graph or graph_config is not properly initialized.",
                             None, None, None, EmptyDict),
                  built |-> TRUE, graph |-> b.graph, graph_config |-> b.graph_config,
                  cache |-> b.cache, nextId |-> b.nextId, gets |-> b.gets]
            ELSE [kind |-> "return", built |-> TRUE,
                  graph |-> b.graph, graph_config |-> b.graph_config,
                  cache |-> b.cache, nextId |-> b.nextId, gets |-> b.gets]
    IN  IF graph = None \/ graph_config = None
        THEN Check(SelfBuildGraph)
        ELSE [kind |-> "return", built |-> FALSE, graph |-> graph,
              graph_config |-> graph_config, cache |-> _llm_cache, nextId |-> nextId,
              gets |-> <<>>]

\* _ensure_graph that runs build_graph on every call, whatever the cached
\* graph
_ensure_graph_AlwaysBuilds ==
    LET Check(b) ==
            IF b.kind = "raise"
            THEN [kind |-> "raise", exc |-> b.exc, built |-> TRUE,
                  graph |-> graph, graph_config |-> graph_config,
                  cache |-> b.cache, nextId |-> b.nextId, gets |-> b.gets]
            ELSE IF b.graph = None \/ b.graph_config = None
            THEN [kind |-> "raise",
                  exc |-> BaseServiceError("GraphInitializeError",
                             "Graph or graph_config is not properly initialized.",
                             None, None, None, EmptyDict),
                  built |-> TRUE, graph |-> b.graph, graph_config |-> b.graph_config,
                  cache |-> b.cache, nextId |-> b.nextId, gets |-> b.gets]
            ELSE [kind |-> "return", built |-> TRUE,
                  graph |-> b.graph, graph_config |-> b.graph_config,
                  cache |-> b.cache, nextId |-> b.nextId, gets |-> b.gets]
    IN  Check(SelfBuildGraph)

\* GraphRunner._ensure_graph on the runner's current fields
_ensure_graph ==
    LET Check(b) ==
            IF b.kind = "raise"
            THEN [kind |-> "raise", exc |-> b.exc, built |-> TRUE,
                  graph |-> graph, graph_config |-> graph_config,
                  cache |-> b.cache, nextId |-> b.nextId, gets |-> b.gets]
            ELSE IF b.graph = None \/ b.graph_config = None
            THEN [kind |-> "raise",
                  exc |-> BaseServiceError("GraphInitializeError",
                             "Graph or graph_config is not properly initialized.",
                             None, None, None, EmptyDict),
                  built |-> TRUE, graph |-> b.graph, graph_config |-> b.graph_config,
                  cache |-> b.cache, nextId |-> b.nextId, gets |-> b.gets]
            ELSE [kind |-> "return", built |-> TRUE,
                  graph |-> b.graph, graph_config |-> b.graph_config,
                  cache |-> b.cache, nextId |-> b.nextId, gets |-> b.gets]
    IN  IF graph = None \/ graph_config = None
        THEN Check(SelfBuildGraph)
        ELSE [kind |-> "return", built |-> FALSE, graph |-> graph,
              graph_config |-> graph_config, cache |-> _llm_cache, nextId |-> nextId,
              gets |-> <<>>]

\* graph.invoke(state, graph_config): the nodes run along the edges from
\* START to END; outcomeOf gives what the provider does in each node
RECURSIVE GraphWalk(_, _, _, _)
GraphWalk(g, n, state, outcomeOf) ==
    IF n = END THEN [kind |-> "return", state |-> state]
    ELSE LET r == NodeExec(g.nodes[n], state, outcomeOf[n])
         IN  IF r.kind = "raise" THEN [kind |-> "raise", exc |-> r.exc]
             ELSE GraphWalk(g, CHOOSE m \in Successors(g, n) : TRUE, r.state,
                            outcomeOf)

GraphInvoke(g, state, outcomeOf) ==
    GraphWalk(g, CHOOSE m \in Successors(g, START) : TRUE, state, outcomeOf)

\* graph.batch(states, graph_config): the final states in order, or the
\* first exception
GraphBatch(g, states, outcomesOf) ==
    LET Gather(rs) ==
            IF \E i \in DOMAIN rs : rs[i].kind = "raise"
            THEN rs[CHOOSE i \in DOMAIN rs :
                       rs[i].kind = "raise"
                       /\ \A j \in DOMAIN rs : rs[j].kind = "raise" => i <= j]
            ELSE [kind |-> "return", states |-> [i \in DOMAIN rs |-> rs[i].state]]
    IN  Gather([i \in DOMAIN states |-> GraphInvoke(g, states[i], outcomesOf[i])])

\* the history of the _get_llm calls of one _ensure_graph call
RECURSIVE NoteCreates(_, _)
NoteCreates(hist, gets) ==
    IF gets = <<>> THEN hist
    ELSE NoteCreates(NoteCreate(hist, Head(gets)), Tail(gets))

RECURSIVE NoteReturns(_, _)
NoteReturns(hist, gets) ==
    IF gets = <<>> THEN hist
    ELSE NoteReturns(NoteReturn(hist, Head(gets)), Tail(gets))

RunnerIdle ==
    /\ runnerClass = None /\ config = None /\ _llm_cache = EmptyDict /\ graph = None
    /\ graph_config = None /\ retriever = None /\ nextId = 1
    /\ lastCall = None /\ createCalls = EmptyDict /\ returned = EmptyDict
    /\ buildCalls = 0 /\ buildFailed = FALSE /\ swaps = 0 /\ ranWith = {}

ErrorIdle == mappings = EmptyDict /\ errArgs = None /\ errObj = None
LlmIdle == llmArgs = None /\ llmObj = None
FactoryIdle == fheap = EmptyDict /\ fstates = <<>> /\ flast = None
RaceIdle == rcache = EmptyDict /\ rthread = <<>> /\ rnextId = 0 /\ rstores = <<>>
LoggerIdle ==
    /\ _CONFIGURED = FALSE /\ _LOGGERS = {} /\ loggerDict = EmptyDict
    /\ logLast = None /\ logCalls = 0
FileIdle == files = EmptyDict /\ fileLast = None /\ fileRecords = 0 /\ fileCalls = 0
RestIdle == RaceIdle /\ LoggerIdle /\ FileIdle
UnitIdle == ErrorIdle /\ LlmIdle /\ FactoryIdle /\ RestIdle

NodeIdle ==
    /\ nodeDef = None /\ nstate = None /\ nprev = None /\ nlast = None
    /\ nruns = 0

BatchIdle ==
    /\ bstate = None /\ binput = None /\ bpc = None /\ blocal = None
    /\ bresp = None /\ bruns = None

-----------------------------------------------------------------------------
(* Specification Spec: one DecompRunner and the calls made on it *)

\* clients built by direct _get_llm calls, set_retriever calls, build_graph runs
MaxClients == 2
MaxSwaps == 1
MaxBuilds == 2

NodeConfig(model_name, prompt_cache_key) ==
    [model_name |-> model_name, prompt_cache_key |-> prompt_cache_key]

\* config.runner: both nodes on one model (by canonical name and by alias),
\* nodes on two models with a prompt cache key, and a task node whose model
\* name is no member of ModelNames
RunnerConfigs ==
    {[goal_decomp_node |-> NodeConfig("gpt-4.1", None),
      task_decomp_node |-> NodeConfig("gpt41", None)],
     [goal_decomp_node |-> NodeConfig("gpt-5", Some("goal")),
      task_decomp_node |-> NodeConfig("gpt-4.1", None)],
     [goal_decomp_node |-> NodeConfig("gpt-4.1", None),
      task_decomp_node |-> NodeConfig("gpt-3", None)]}

\* the arguments _get_llm is called with: one request in every form of the
\* model identifier, and requests that differ from it in the temperature or
\* the tool-binding flag (build_graph's calls bring the prompt cache keys)
LlmRequest(model_name, temperature, prompt_cache_key, bind_tools) ==
    [model_name |-> model_name, temperature |-> temperature,
     prompt_cache_key |-> prompt_cache_key, bind_tools |-> bind_tools]
ModelIdentifiers ==
    {Member("gpt41"), Str("gpt-4.1"), Str("gpt41"), Member("gpt5"), Str("gpt-5"),
     Str("gpt-3")}
LlmRequests ==
    {LlmRequest(mn, 0, None, FALSE) : mn \in ModelIdentifiers}
    \cup {LlmRequest(Str("gpt-4.1"), 7, None, FALSE),
          LlmRequest(Str("gpt-5"), 7, None, FALSE),
          LlmRequest(Str("gpt-4.1"), 0, None, TRUE)}

\* what the provider does in the two nodes of one traversal
TraversalOutcomes ==
    {[goal_decomp |-> Ok(Message(GoalText, None, None)),
      task_decomp |-> Ok(Message(TaskText, None, None))],
     [goal_decomp |-> Ok(Message(GoalText, None, None)),
      task_decomp |-> Raise(ProviderError("RateLimitError", Some(429), None))],
     [goal_decomp |-> Raise(ProviderError("APITimeoutError", None, None)),
      task_decomp |-> Ok(Message(TaskText, None, None))]}

Retrievers == {"retriever_a", "retriever_b"}

\* the last call made on the runner: its argument (for _get_llm), how it
\* ended and the exception that left it, whether it ran
\* build_graph, and how many of its _get_llm calls returned a client that
\* was in the cache already
Call(op, arg, r, built, gets) ==
    [op |-> op, arg |-> arg, kind |-> r.kind,
     exc |-> IF r.kind = "raise" THEN Some(r.exc) ELSE None,
     built |-> built,
     hits |-> Cardinality({i \in DOMAIN gets :
                              gets[i].kind = "return" /\ ~gets[i].created})]
Returned == [kind |-> "return"]

\* the runners tried: a DecompRunner on every config, the other classes on
\* the first
RunnerSetups ==
    {<<"DecompRunner", c>> : c \in RunnerConfigs}
    \cup {<<cls, CHOOSE c \in RunnerConfigs :
                    c.task_decomp_node.model_name = "gpt41">> : cls \in RunnerClasses}

Init ==
    /\ \E setup \in RunnerSetups : runnerClass = setup[1] /\ config = setup[2]
    /\ _llm_cache = EmptyDict
    /\ graph = None
    /\ graph_config = None
    /\ retriever = None
    /\ nextId = 1
    /\ lastCall = None
    /\ createCalls = EmptyDict
    /\ returned = EmptyDict
    /\ buildCalls = 0
    /\ buildFailed = FALSE
    /\ swaps = 0
    /\ ranWith = {}
    /\ ChainIdle /\ NodeIdle /\ BatchIdle /\ UnitIdle

\* a call of self._get_llm(model_name, temperature=..., prompt_cache_key=...,
\* bind_tools=...)
GetLlm ==
    \E rq \in LlmRequests :
        \E g \in {_get_llm(_llm_cache, nextId, rq.model_name, rq.temperature,
                            rq.prompt_cache_key, rq.bind_tools)} :
            /\ g.created => nextId <= MaxClients
            /\ _llm_cache' = g.cache
            /\ nextId' = g.nextId
            /\ createCalls' = IF g.kind = "return" THEN NoteCreate(createCalls, g)
                              ELSE createCalls
            /\ returned' = IF g.kind = "return" THEN NoteReturn(returned, g)
                           ELSE returned
            /\ lastCall' = Some(Call("_get_llm", Some(rq), g, FALSE, <<g>>))
            /\ UNCHANGED <<runnerClass, config, graph, graph_config, retriever, buildCalls,
                           buildFailed, swaps, ranWith, chainVars, nodeVars,
                           batchVars,
                       unitVars>>

\* set_retriever that also throws the cached clients away
SetRetriever_ClearsCache ==
    \E r \in Retrievers :
        /\ swaps < MaxSwaps
        /\ retriever' = Some(r)
        /\ graph' = None
        /\ graph_config' = None
        /\ _llm_cache' = EmptyDict
        /\ swaps' = swaps + 1
        /\ lastCall' = Some(Call("set_retriever", None, Returned, FALSE, <<>>))
        /\ UNCHANGED <<runnerClass, config, nextId, createCalls, returned, buildCalls,
                       buildFailed, ranWith, chainVars, nodeVars, batchVars,
                       unitVars>>

\* set_retriever(retriever)
SetRetriever ==
    \E r \in Retrievers :
        /\ swaps < MaxSwaps
        /\ retriever' = Some(r)
        /\ graph' = None
        /\ graph_config' = None
        /\ swaps' = swaps + 1
        /\ lastCall' = Some(Call("set_retriever", None, Returned, FALSE, <<>>))
        /\ UNCHANGED <<runnerClass, config, _llm_cache, nextId, createCalls, returned,
                       buildCalls, buildFailed, ranWith, chainVars, nodeVars,
                       batchVars,
                       unitVars>>

\* invoke(state): graph, graph_config = self._ensure_graph(), then
\* graph.invoke(state, graph_config); e is what _ensure_graph returned or
\* raised and did to the runner's fields
Invoke ==
    \E outcomeOf \in TraversalOutcomes, e \in {_ensure_graph} :
        /\ e.built => buildCalls < MaxBuilds
        /\ graph' = e.graph
        /\ graph_config' = e.graph_config
        /\ _llm_cache' = e.cache
        /\ nextId' = e.nextId
        /\ createCalls' = NoteCreates(createCalls, e.gets)
        /\ returned' = NoteReturns(returned, e.gets)
        /\ buildCalls' = IF e.built THEN buildCalls + 1 ELSE buildCalls
        /\ buildFailed' = (buildFailed \/ e.kind = "raise")
        /\ IF e.kind = "raise"
           THEN /\ lastCall' = Some(Call("invoke", None, e, e.built, e.gets))
                /\ UNCHANGED ranWith
           ELSE /\ lastCall' = Some(Call("invoke", None,
                                      GraphInvoke(e.graph[1], BatchInput(1),
                                                  outcomeOf),
                                      e.built, e.gets))
                /\ ranWith' = ranWith \cup {<<e.graph[1].id, e.graph_config[1]>>}
        /\ UNCHANGED <<runnerClass, config, retriever, swaps, chainVars, nodeVars,
                       batchVars,
                       unitVars>>

\* batch(states), two states: graph, graph_config = self._ensure_graph(),
\* then graph.batch(states, graph_config)
Batch ==
    \E o1 \in TraversalOutcomes, o2 \in TraversalOutcomes, e \in {_ensure_graph} :
        /\ e.built => buildCalls < MaxBuilds
        /\ graph' = e.graph
        /\ graph_config' = e.graph_config
        /\ _llm_cache' = e.cache
        /\ nextId' = e.nextId
        /\ createCalls' = NoteCreates(createCalls, e.gets)
        /\ returned' = NoteReturns(returned, e.gets)
        /\ buildCalls' = IF e.built THEN buildCalls + 1 ELSE buildCalls
        /\ buildFailed' = (buildFailed \/ e.kind = "raise")
        /\ IF e.kind = "raise"
           THEN /\ lastCall' = Some(Call("batch", None, e, e.built, e.gets))
                /\ UNCHANGED ranWith
           ELSE /\ lastCall' = Some(Call("batch", None,
                                      GraphBatch(e.graph[1],
                                                 <<BatchInput(1), BatchInput(2)>>,
                                                 <<o1, o2>>),
                                      e.built, e.gets))
                /\ ranWith' = ranWith \cup {<<e.graph[1].id, e.graph_config[1]>>}
        /\ UNCHANGED <<runnerClass, config, retriever, swaps, chainVars, nodeVars,
                       batchVars,
                       unitVars>>

Next == GetLlm \/ SetRetriever \/ Invoke \/ Batch
Spec == Init /\ [][Next]_vars

-----------------------------------------------------------------------------
(* Specification SpecNode: one node closure executed again and again on one
   state *)

MaxNodeRuns == 3

\* the state a node is tried on: a planning state, with the "history" list
\* (make_normal_node's default state_key) and the loop counter
NodeState(afterGoal) ==
    LET base == MakeState("q1", "objects", "skills")
    IN  [k \in DOMAIN base \cup {"history", "feedback_loop_count"} |->
            IF k = "history" THEN PyList(<<>>)
            ELSE IF k = "feedback_loop_count" THEN 0
            ELSE IF k = "subgoals" /\ afterGoal
                 THEN PyDict("subgoals", <<"sg0">>)
            ELSE base[k]]

\* the node definitions tried: the two nodes of the pipeline, each also in
\* append mode on "history", with either hook, without parser_output and with
\* skip_parser
NodeDefs ==
    {make_normal_node(create_llm(1, "gpt41", 0, None, FALSE),
                      IF goal THEN "GOAL_DECOMP_NODE_PROMPT"
                      ELSE "TASK_DECOMP_NODE_PROMPT",
                      IF goal THEN "make_goal_decomp_node_inputs"
                      ELSE "make_task_decomp_node_inputs",
                      IF ~parsed THEN None
                      ELSE Some(IF goal THEN "GoalDecompNodeParser"
                                ELSE "TaskDecompNodeParser"),
                      IF append THEN "history"
                      ELSE IF goal THEN "subgoals" ELSE "tasks",
                      append, mo, ms, skip) :
        goal \in BOOLEAN, append \in BOOLEAN,
        parsed \in BOOLEAN, skip \in BOOLEAN,
        mo \in {None, Some("keep_first")},
        ms \in {None, Some("advance_loop_counter"), Some("record_feedback")}}

NodeOutcomes ==
    {Ok(Message(c, None, None)) : c \in Contents}
    \cup {Raise(ProviderError("RateLimitError", Some(429), None)),
          Raise(ProviderError("APITimeoutError", None, None))}

InitNode ==
    /\ nodeDef \in NodeDefs
    /\ nstate \in {NodeState(FALSE), NodeState(TRUE)}
    /\ nprev = None /\ nlast = None /\ nruns = 0
    /\ ChainIdle /\ RunnerIdle /\ BatchIdle /\ UnitIdle

\* node(state) completes: the state is written
NodeExecute ==
    \E outcome \in NodeOutcomes :
        LET r == NodeExec(nodeDef, nstate, outcome)
        IN  /\ nruns < MaxNodeRuns
            /\ r.kind = "return"
            /\ nprev' = nstate
            /\ nstate' = r.state
            /\ nlast' = Some([kind |-> "return", outcome |-> outcome,
                              calls |-> r.calls, inputs |-> r.inputs])
            /\ nruns' = nruns + 1
            /\ UNCHANGED <<nodeDef, runnerVars, chainVars, batchVars, unitVars>>

\* node(state) raises
NodeRaise ==
    \E outcome \in NodeOutcomes :
        LET r == NodeExec(nodeDef, nstate, outcome)
        IN  /\ r.kind = "raise"
            /\ nprev' = nstate
            /\ nstate' = r.state
            /\ nlast' = Some([kind |-> "raise", outcome |-> outcome, exc |-> r.exc,
                              calls |-> r.calls, inputs |-> r.inputs])
            /\ UNCHANGED <<nodeDef, nruns, runnerVars, chainVars, batchVars, unitVars>>

NextNode == NodeExecute \/ NodeRaise
SpecNode == InitNode /\ [][NextNode]_vars

-----------------------------------------------------------------------------
(* Specification SpecBatch: graph.batch(states, graph_config) runs one
   traversal of the compiled graph per state; the traversals interleave at
   every step of every node.  A node is triggered when a node with an edge
   to it has written; START has written from the outset. *)

NumStates == 2
Traversals == 1 .. NumStates
NodeNames == {"goal_decomp", "task_decomp"}

\* the graph DecompRunner.build_graph compiles when both nodes share a client
BatchGraph ==
    LET llm == create_llm(1, "gpt41", 0, None, FALSE)
    IN  make_decomp_plan_graph(2, "BaseStateSchema", DecompNodes(llm, llm),
                               "decomp_planning").graph

BatchOutcomes ==
    {Ok(Message(c, None, None)) :
        c \in {GoalText, GoalTextB, TaskText, TaskTextB, TaskTextSkill, TaskTextTarget}}
    \cup {Raise(ProviderError("RateLimitError", Some(429), None))}

NoLocals == [inputs |-> None, value |-> None]

InitBatch ==
    /\ binput = [i \in Traversals |-> BatchInput(i)]
    /\ bstate = [i \in Traversals |-> BatchInput(i)]
    /\ bpc = [i \in Traversals |->
                [status |-> "running", trig |-> Successors(BatchGraph, START),
                 phase |-> [n \in NodeNames |-> "idle"]]]
    /\ blocal = [i \in Traversals |-> [n \in NodeNames |-> NoLocals]]
    /\ bresp = [i \in Traversals |-> [n \in NodeNames |-> None]]
    /\ bruns = [i \in Traversals |-> [n \in NodeNames |-> 0]]
    /\ ChainIdle /\ RunnerIdle /\ NodeIdle /\ UnitIdle

\* traversal i enters node n: inputs = make_inputs(state), format instructions
StepProject(i, n) ==
    LET p == NodeProject(BatchGraph.nodes[n], bstate[i])
    IN  /\ bpc[i].status = "running"
        /\ n \in bpc[i].trig
        /\ bpc[i].phase[n] = "idle"
        /\ bruns' = [bruns EXCEPT ![i][n] = @ + 1]
        /\ bstate' = [bstate EXCEPT ![i] = p.state]
        /\ IF p.kind = "raise"
           THEN /\ bpc' = [bpc EXCEPT ![i].status = "failed"]
                /\ UNCHANGED blocal
           ELSE /\ bpc' = [bpc EXCEPT ![i].trig = @ \ {n}, ![i].phase[n] = "call"]
                /\ blocal' = [blocal EXCEPT ![i][n].inputs = Some(p.value)]
        /\ UNCHANGED <<binput, bresp, runnerVars, chainVars, nodeVars, unitVars>>

\* traversal i, in node n, blocks on chain_resources.run(inputs) and resumes
StepCall(i, n, outcome) ==
    LET r == LLMChainResourcesRun(BatchGraph.nodes[n].chain_resources,
                                  blocal[i][n].inputs[1], outcome)
    IN  /\ bpc[i].status = "running"
        /\ bpc[i].phase[n] = "call"
        /\ bresp' = [bresp EXCEPT ![i][n] = Some(outcome)]
        /\ IF r.kind = "raise"
           THEN /\ bpc' = [bpc EXCEPT ![i].status = "failed"]
                /\ blocal' = [blocal EXCEPT ![i][n] = NoLocals]
           ELSE /\ bpc' = [bpc EXCEPT ![i].phase[n] = "write"]
                /\ blocal' = [blocal EXCEPT ![i][n].value = Some(r.value)]
        /\ UNCHANGED <<binput, bstate, bruns, runnerVars, chainVars, nodeVars, unitVars>>

\* a node closure that keeps its result in a variable shared by all calls
StepWrite_SharedResult(i, n) ==
    \E j \in Traversals :
        /\ bpc[i].status = "running"
        /\ bpc[i].phase[n] = "write"
        /\ blocal[j][n].value # None
        /\ LET w == NodeFinish(BatchGraph.nodes[n], bstate[i], blocal[j][n].value[1])
           IN  /\ bstate' = [bstate EXCEPT ![i] = w.state]
               /\ bpc' = [bpc EXCEPT ![i].phase[n] = "idle",
                                     ![i].trig = @ \cup Successors(BatchGraph, n)]
        /\ blocal' = [blocal EXCEPT ![i][n] = NoLocals]
        /\ UNCHANGED <<binput, bresp, bruns, runnerVars, chainVars, nodeVars, unitVars>>

\* traversal i, in node n: hooks, model_dump, the write, return state
StepWrite(i, n) ==
    LET w == NodeFinish(BatchGraph.nodes[n], bstate[i], blocal[i][n].value[1])
    IN  /\ bpc[i].status = "running"
        /\ bpc[i].phase[n] = "write"
        /\ bstate' = [bstate EXCEPT ![i] = w.state]
        /\ IF w.kind = "raise"
           THEN bpc' = [bpc EXCEPT ![i].status = "failed"]
           ELSE bpc' = [bpc EXCEPT ![i].phase[n] = "idle",
                                   ![i].trig = @ \cup Successors(BatchGraph, n)]
        /\ blocal' = [blocal EXCEPT ![i][n] = NoLocals]
        /\ UNCHANGED <<binput, bresp, bruns, runnerVars, chainVars, nodeVars, unitVars>>

NextBatch ==
    \E i \in Traversals, n \in NodeNames :
        \/ StepProject(i, n)
        \/ \E outcome \in BatchOutcomes : StepCall(i, n, outcome)
        \/ StepWrite(i, n)

SpecBatch == InitBatch /\ [][NextBatch]_vars

\* traversal i has reached END with no node left to run
TraversalDone(i) ==
    /\ bpc[i].status = "running"
    /\ bpc[i].trig = {END}
    /\ \A n \in NodeNames : bpc[i].phase[n] = "idle"

-----------------------------------------------------------------------------
(* Specifications *)

InitChain == ChainIdle /\ RunnerIdle /\ NodeIdle /\ BatchIdle /\ UnitIdle
NextChain == ChainBuild \/ ChainRun
SpecChain == InitChain /\ [][NextChain]_vars

-----------------------------------------------------------------------------
(* Specification SpecErrors: errors of the taxonomy are constructed, with and
   without explicit fields; the caller keeps the mapping it passed as details
   and may change it afterwards *)

ErrorCodes == {None, Some(""), Some("E_CUSTOM")}
ErrorStatuses == {None, Some(0), Some(418)}
ErrorDomains == {None, Some(""), Some("planner")}
\* the mapping the caller passes as details: none, an empty one, a filled one
ErrorDetails == {None, Some(EmptyDict), Some([model_name |-> "gpt-4.1"])}

\* identities: the caller's mapping, the dict the error makes for itself
CallerMapping == "caller"
OwnMapping == "own"

InitErrors ==
    /\ ErrorIdle /\ LlmIdle /\ FactoryIdle /\ RestIdle
    /\ RunnerIdle /\ ChainIdle /\ NodeIdle /\ BatchIdle

\* cls(message, code=..., status=..., domain=..., details=...)
ErrorNew ==
    \E cls \in TaxonomyClasses, code \in ErrorCodes, status \in ErrorStatuses,
       domain \in ErrorDomains, details \in ErrorDetails :
        \E e \in {BaseServiceError(cls, "failed", code, status, domain,
                                   IF details = None THEN EmptyDict ELSE details[1])} :
            /\ errArgs' = Some([cls |-> cls, code |-> code, status |-> status,
                                domain |-> domain, details |-> details])
            /\ errObj' = Some([e EXCEPT !.details = OwnMapping])
            /\ mappings' = IF details = None
                           THEN [id \in {OwnMapping} |-> e.details]
                           ELSE [id \in {CallerMapping, OwnMapping} |->
                                    IF id = CallerMapping THEN details[1]
                                    ELSE e.details]
            /\ UNCHANGED <<llmVars, factoryVars, restVars, runnerVars, chainVars, nodeVars, batchVars>>

\* the caller writes into the mapping it passed
CallerWrites ==
    /\ CallerMapping \in DOMAIN mappings
    /\ "retry_after" \notin DOMAIN mappings[CallerMapping]
    /\ mappings' = [mappings EXCEPT
                       ![CallerMapping] = DictSet(@, "retry_after", 30)]
    /\ UNCHANGED <<errArgs, errObj, llmVars, factoryVars, restVars, runnerVars, chainVars, nodeVars,
                   batchVars>>

NextErrors == ErrorNew \/ CallerWrites
SpecErrors == InitErrors /\ [][NextErrors]_vars

-----------------------------------------------------------------------------
(* Specification SpecLlm: create_llm is called for every model, with
   explicit temperatures (in tenths) *)

LlmTemperatures == {0, 3, 7, 10, 20}
LlmPromptCacheKeys == {None, Some(""), Some("planner-v1")}

InitLlm ==
    /\ LlmIdle /\ ErrorIdle /\ FactoryIdle /\ RestIdle
    /\ RunnerIdle /\ ChainIdle /\ NodeIdle /\ BatchIdle

\* create_llm(model_name, temperature, prompt_cache_key, bind_tools)
LlmCreate ==
    \E model_name \in ModelKeys, temperature \in LlmTemperatures,
       prompt_cache_key \in LlmPromptCacheKeys, bind_tools \in BOOLEAN :
        /\ llmArgs' = Some([model_name |-> model_name, temperature |-> temperature,
                            prompt_cache_key |-> prompt_cache_key,
                            bind_tools |-> bind_tools])
        /\ llmObj' = Some(create_llm(1, model_name, temperature, prompt_cache_key,
                                     bind_tools))
        /\ UNCHANGED <<errorVars, factoryVars, restVars, runnerVars, chainVars, nodeVars, batchVars>>

NextLlm == LlmCreate
SpecLlm == InitLlm /\ [][NextLlm]_vars

-----------------------------------------------------------------------------
(* Specification SpecFactory: a BaseStateMaker makes states; the states it
   returned are written to as the nodes write: state[key] = result and
   state[key].append(result) *)

MaxMakes == 2
MaxWrites == 2

FactoryQueries == {"q1", "q2"}
\* what the environment reports when asked
FactoryInventories == {<<"object_red_0">>, <<"object_red_0", "object_red_bowl_0">>}
\* the keys nodes write to, with the result a node stores under each
WrittenKeys == {"subgoals", "tasks"}
WrittenResult(key) ==
    IF key = "subgoals" THEN PyDict("subgoals", <<"sg1">>)
    ELSE PyDict("task_outputs", <<"t1">>)

\* the states make returned so far
MadeStates == DOMAIN fstates \ {0}

\* the number of writes made to states so far: objects stored under a key in
\* place of the one make put there, and items appended to lists
WritesMade ==
    LET written == {r \in DOMAIN fheap : r[2] \in WrittenKeys}
    IN  Cardinality({r \in written : r[3] >= 1})
        + Cardinality(UNION {{<<r, i>> : i \in DOMAIN fheap[r].items} :
                                r \in {q \in written : fheap[q].t = "list"}})

\* after BaseStateMaker.__init__: base_state is built
InitFactory ==
    /\ fheap = [r \in {<<0, k, 0>> : k \in StateKeys} |-> _make_base_state[r[2]]]
    /\ fstates = [s \in {0} |-> [k \in StateKeys |-> <<0, k, 0>>]]
    /\ flast = None
    /\ ErrorIdle /\ LlmIdle /\ RestIdle
    /\ ChainIdle /\ RunnerIdle /\ NodeIdle /\ BatchIdle

\* maker.make(user_query=q)
FactoryMake ==
    \E q \in FactoryQueries, objects \in FactoryInventories :
        \E made \in {BaseStateMaker_make(fheap, fstates[0], Cardinality(DOMAIN fstates),
                                          q, objects)} :
            /\ Cardinality(MadeStates) < MaxMakes
            /\ fheap' = made.heap
            /\ fstates' = [s \in DOMAIN fstates \cup {Cardinality(DOMAIN fstates)} |->
                              IF s \in DOMAIN fstates THEN fstates[s] ELSE made.state]
            /\ flast' = Some([op |-> "make", state |-> Cardinality(DOMAIN fstates),
                              user_query |-> q, objects |-> objects])
            /\ UNCHANGED <<errorVars, llmVars, restVars, runnerVars, chainVars, nodeVars,
                           batchVars>>

\* state[key] = result on a state make returned
StateReplace ==
    \E s \in MadeStates, key \in WrittenKeys :
        \E r \in {FreshObject(fheap, s, key)} :
            /\ WritesMade < MaxWrites
            /\ fheap' = Allocate(fheap, r, WrittenResult(key))
            /\ fstates' = [fstates EXCEPT ![s][key] = r]
            /\ flast' = Some([op |-> "replace", state |-> s, user_query |-> "",
                              objects |-> <<>>])
            /\ UNCHANGED <<errorVars, llmVars, restVars, runnerVars, chainVars, nodeVars,
                           batchVars>>

\* state[key].append(result) on a state make returned
StateAppend ==
    \E s \in MadeStates, key \in WrittenKeys :
        /\ WritesMade < MaxWrites
        /\ fheap[fstates[s][key]].t = "list"
        /\ fheap' = [fheap EXCEPT ![fstates[s][key]].items = Append(@, "r1")]
        /\ flast' = Some([op |-> "append", state |-> s, user_query |-> "",
                          objects |-> <<>>])
        /\ UNCHANGED <<fstates, errorVars, llmVars, restVars, runnerVars, chainVars, nodeVars,
                       batchVars>>

NextFactory == FactoryMake \/ StateReplace \/ StateAppend
SpecFactory == InitFactory /\ [][NextFactory]_vars

-----------------------------------------------------------------------------
(* Specification SpecRace: threads call _get_llm on one runner; a thread can
   be preempted between any two statements of lines 61-70 *)

NumThreads == 2
MaxCallsPerThread == 2

Threads == 1 .. NumThreads
\* the identifiers the threads ask for: two forms of one model, another model
RaceIdentifiers == {Str("gpt-4.1"), Member("gpt41"), Member("gpt5")}

ThreadIdle ==
    [pc |-> "idle", key |-> None, member |-> None, llm |-> None, calls |-> 0,
     returned |-> None, began |-> 0]

InitRace ==
    /\ rcache = EmptyDict
    /\ rthread = [t \in Threads |-> ThreadIdle]
    /\ rnextId = 1
    /\ rstores = <<>>
    /\ LoggerIdle /\ FileIdle /\ ErrorIdle /\ LlmIdle /\ FactoryIdle
    /\ ChainIdle /\ RunnerIdle /\ NodeIdle /\ BatchIdle

\* lines 51-61: thread t enters _get_llm, resolves the member and forms
\* cache_key; began is the number of stores made before the call
RaceEnter(t) ==
    \E mn \in RaceIdentifiers :
        /\ rthread[t].pc = "idle"
        /\ rthread[t].calls < MaxCallsPerThread
        /\ rthread' = [rthread EXCEPT ![t] =
                          [pc |-> "get",
                           key |-> Some(<<ModelNames[ResolveModelName(mn)[1]], 0, None, FALSE>>),
                           member |-> ResolveModelName(mn), llm |-> None,
                           calls |-> @.calls, returned |-> None,
                           began |-> Len(rstores)]]
        /\ UNCHANGED <<rcache, rnextId, rstores, loggerVars, fileVars, errorVars, llmVars,
                   factoryVars, runnerVars,
                   chainVars, nodeVars, batchVars>>

\* line 62-63: llm = self._llm_cache.get(cache_key); if llm is None
RaceGet(t) ==
    /\ rthread[t].pc = "get"
    /\ rthread' = [rthread EXCEPT ![t].llm =
                      IF rthread[t].key[1] \in DOMAIN rcache
                      THEN Some(rcache[rthread[t].key[1]]) ELSE None,
                                  ![t].pc =
                      IF rthread[t].key[1] \in DOMAIN rcache
                      THEN "return" ELSE "create"]
    /\ UNCHANGED <<rcache, rnextId, rstores, loggerVars, fileVars, errorVars, llmVars,
                   factoryVars, runnerVars,
                   chainVars, nodeVars, batchVars>>

\* lines 64-68: llm = graph_module.create_llm(...)
RaceCreate(t) ==
    /\ rthread[t].pc = "create"
    /\ rthread' = [rthread EXCEPT ![t].llm =
                      Some(create_llm(rnextId, rthread[t].member[1], 0, None, FALSE)),
                                  ![t].pc = "store"]
    /\ rnextId' = rnextId + 1
    /\ UNCHANGED <<rcache, rstores, loggerVars, fileVars, errorVars, llmVars,
                   factoryVars, runnerVars,
                   chainVars, nodeVars, batchVars>>

\* line 69: self._llm_cache[cache_key] = llm
RaceStore(t) ==
    /\ rthread[t].pc = "store"
    /\ rcache' = DictSet(rcache, rthread[t].key[1], rthread[t].llm[1])
    /\ rstores' = Append(rstores, [key |-> rthread[t].key[1], llm |-> rthread[t].llm[1]])
    /\ rthread' = [rthread EXCEPT ![t].pc = "return"]
    /\ UNCHANGED <<rnextId, loggerVars, fileVars, errorVars, llmVars,
                   factoryVars, runnerVars,
                   chainVars, nodeVars, batchVars>>

\* line 70: return llm
RaceReturn(t) ==
    /\ rthread[t].pc = "return"
    /\ rthread' = [rthread EXCEPT ![t].pc = "idle", ![t].calls = @ + 1,
                                  ![t].returned = rthread[t].llm]
    /\ UNCHANGED <<rcache, rnextId, rstores, loggerVars, fileVars, errorVars, llmVars,
                   factoryVars, runnerVars,
                   chainVars, nodeVars, batchVars>>

NextRace ==
    \E t \in Threads :
        \/ RaceEnter(t)
        \/ RaceGet(t)
        \/ RaceCreate(t)
        \/ RaceStore(t)
        \/ RaceReturn(t)

SpecRace == InitRace /\ [][NextRace]_vars

-----------------------------------------------------------------------------
(* common/logger.py: get_logger on the registry of the logging module *)

MaxLoggerCalls == 3

\* the names get_logger is called with; None and "" both mean "robot_agent",
\* and logging.getLogger("root") is the root logger
LoggerNames == {None, Some(""), Some("robot_agent"), Some("src.utils.file"), Some("root")}
\* the filenames it is called with
LoggerFilenames == {None, Some(""), Some("logs/run.log"), Some("~/agent/agent.log")}

\* logger_name.replace(".", "_") on the names above
safe_name ==
    ("robot_agent" :> "robot_agent") @@ ("src.utils.file" :> "src_utils_file")
    @@ ("root" :> "root")

\* Path(filename).expanduser() on the filenames above, as parent and name
expanduser ==
    ("logs/run.log" :> [parent |-> "logs", name |-> <<"run", ".log">>])
    @@ ("~/agent/agent.log" :> [parent |-> "/home/user/agent", name |-> <<"agent", ".log">>])

\* logging.StreamHandler() and RotatingFileHandler(str(log_path), ...)
StreamHandler == [cls |-> "StreamHandler", path |-> None]
RotatingFileHandler(log_path) == [cls |-> "RotatingFileHandler", path |-> Some(log_path)]

\* the registry of a fresh interpreter: the root logger alone, no handler
FreshRegistry ==
    "root" :> [id |-> 0, handlers |-> <<>>, propagate |-> TRUE, level |-> "WARNING"]

\* logging.basicConfig(level=INFO, format=...): does nothing when the root
\* logger has handlers, else adds a StreamHandler and sets the level
basicConfig(registry) ==
    IF registry["root"].handlers # <<>> THEN registry
    ELSE [registry EXCEPT !["root"].handlers = <<StreamHandler>>,
                          !["root"].level = "INFO"]

\* logging.getLogger(logger_name): the logger of that name, made on first use
getLogger(registry, logger_name) ==
    IF logger_name \in DOMAIN registry THEN registry
    ELSE DictSet(registry, logger_name,
                 [id |-> Cardinality(DOMAIN registry), handlers |-> <<>>,
                  propagate |-> TRUE, level |-> "NOTSET"])

\* lines 57-63: the path of the log file
log_path(logger_name, filename) ==
    IF TruthyStr(filename) THEN expanduser[filename[1]]
    ELSE [parent |-> "logs", name |-> <<safe_name[logger_name], ".log">>]

\* get_logger without the check of lines 41-42: every call adds handlers
get_logger_NoGuard(registry, configured, known, name, filename, is_save, os_ok) ==
    LET logger_name == IF TruthyStr(name) THEN name[1] ELSE "robot_agent"
        reg1 == getLogger(IF configured THEN registry ELSE basicConfig(registry),
                          logger_name)
        reg2 == [reg1 EXCEPT ![logger_name].propagate = FALSE,
                             ![logger_name].handlers = Append(@, StreamHandler),
                             ![logger_name].level = "INFO"]
    IN  IF ~is_save
        THEN [kind |-> "return", logger |-> logger_name, registry |-> reg2,
              known |-> known \cup {logger_name}]
        ELSE IF ~os_ok
        THEN [kind |-> "raise", logger |-> logger_name, registry |-> reg2,
              known |-> known \cup {logger_name}]
        ELSE [kind |-> "return", logger |-> logger_name,
              registry |-> [reg2 EXCEPT ![logger_name].handlers =
                               Append(@, RotatingFileHandler(log_path(logger_name, filename)))],
              known |-> known \cup {logger_name}]

\* get_logger(name, filename, is_save) on the registry given; configured is
\* _CONFIGURED and known is _LOGGERS before the call; os_ok tells whether the
\* operating system lets the log directory be made and the file be opened
\* (if not, mkdir or RotatingFileHandler raises OSError after the console
\* handler has been added)
get_logger(registry, configured, known, name, filename, is_save, os_ok) ==
    LET logger_name == IF TruthyStr(name) THEN name[1] ELSE "robot_agent"
        reg1 == getLogger(IF configured THEN registry ELSE basicConfig(registry),
                          logger_name)
        reg2 == [reg1 EXCEPT ![logger_name].propagate = FALSE,
                             ![logger_name].handlers = Append(@, StreamHandler),
                             ![logger_name].level = "INFO"]
    IN  IF reg1[logger_name].handlers # <<>>
        THEN [kind |-> "return", logger |-> logger_name, registry |-> reg1,
              known |-> known]
        ELSE IF ~is_save
        THEN [kind |-> "return", logger |-> logger_name, registry |-> reg2,
              known |-> known \cup {logger_name}]
        ELSE IF ~os_ok
        THEN [kind |-> "raise", logger |-> logger_name, registry |-> reg2,
              known |-> known \cup {logger_name}]
        ELSE [kind |-> "return", logger |-> logger_name,
              registry |-> [reg2 EXCEPT ![logger_name].handlers =
                               Append(@, RotatingFileHandler(log_path(logger_name, filename)))],
              known |-> known \cup {logger_name}]

InitLogger ==
    /\ _CONFIGURED = FALSE
    /\ _LOGGERS = {}
    /\ loggerDict = FreshRegistry
    /\ logLast = None
    /\ logCalls = 0
    /\ FileIdle /\ RaceIdle /\ ErrorIdle /\ LlmIdle /\ FactoryIdle
    /\ ChainIdle /\ RunnerIdle /\ NodeIdle /\ BatchIdle

\* one call of get_logger; logLast keeps the arguments, the outcome and the
\* logger of that name as it was when the call began
GetLogger ==
    \E name \in LoggerNames, filename \in LoggerFilenames, is_save \in BOOLEAN,
       os_ok \in BOOLEAN :
        \E r \in {get_logger(loggerDict, _CONFIGURED, _LOGGERS, name, filename,
                             is_save, os_ok)} :
            /\ logCalls < MaxLoggerCalls
            /\ _CONFIGURED' = TRUE
            /\ _LOGGERS' = r.known
            /\ loggerDict' = r.registry
            /\ logLast' = Some([name |-> name, filename |-> filename, is_save |-> is_save,
                                kind |-> r.kind, logger |-> r.logger,
                                before |-> IF r.logger \in DOMAIN loggerDict
                                           THEN Some(loggerDict[r.logger]) ELSE None])
            /\ logCalls' = logCalls + 1
            /\ UNCHANGED <<fileVars, raceVars, errorVars, llmVars, factoryVars, runnerVars,
                           chainVars, nodeVars, batchVars>>

NextLogger == GetLogger

SpecLogger == InitLogger /\ [][NextLogger]_vars

-----------------------------------------------------------------------------
(* utils/file.py: load *)

MaxLoads == 3

\* a path is the sequence of the pieces between its dots
LoadPaths ==
    {<<"data/notes", "txt">>, <<"data/plan", "json">>, <<"data/table", "csv">>,
     <<"conf/agent", "yaml">>, <<"data/state", "pkl">>, <<"data/archive", "tar", "gz">>,
     <<"data/notes", "TXT">>, <<"README">>, <<"data/report", "">>}
SupportedExtensions == {"txt", "csv", "json", "yaml", "pkl"}

\* the content of a well-formed file of a format, and of a file no reader of
\* a structured format accepts
Stored(format, path) == [format |-> format, of |-> path]
\* the file systems load runs on: none of the paths exists, or all do, some
\* of them with content that is not of the format their extension names
FileSystems ==
    {EmptyDict} \cup
    {[p \in LoadPaths |-> IF p \in broken THEN Stored("binary", p)
                          ELSE Stored(p[Len(p)], p)] :
        broken \in SUBSET {<<"data/plan", "json">>, <<"data/notes", "txt">>}}

\* open(path) and the reader of the extension on the file system given:
\* the value read, or the exception the reader raises
ReadFile(fs, path, extension) ==
    IF path \notin DOMAIN fs
    THEN [kind |-> "raise", exc |-> ForeignError("FileNotFoundError")]
    ELSE IF fs[path].format = extension
    THEN [kind |-> "return", value |-> [loaded |-> extension, of |-> path]]
    ELSE [kind |-> "raise",
          exc |-> ForeignError(IF extension = "json" THEN "JSONDecodeError"
                               ELSE "UnicodeDecodeError")]

\* the body of the try statement, lines 21-42
load_Body(fs, path) ==
    LET extension == path[Len(path)]
    IN  IF extension \in SupportedExtensions THEN ReadFile(fs, path, extension)
        ELSE [kind |-> "raise",
              exc |-> BaseServiceError("UtilsValidationError",
                                       <<"Unsupported file extension: ", extension>>,
                                       None, None, None,
                                       "extension" :> extension)]

\* load(path) on the file system given: lines 43-45 catch every Exception of
\* the body, log it and raise FileExistsError from it; records counts the
\* logger.exception calls
load(fs, path, records) ==
    LET inner(r) ==
            IF r.kind = "return"
            THEN [kind |-> "return", value |-> r.value, records |-> records]
            ELSE [kind |-> "raise",
                  exc |-> [cls |-> "FileExistsError",
                           message |-> <<"Error loading file from ", path, r.exc>>,
                           cause |-> r.exc],
                  records |-> records + 1]
    IN  inner(load_Body(fs, path))

InitFile ==
    /\ files \in FileSystems
    /\ fileLast = None
    /\ fileRecords = 0
    /\ fileCalls = 0
    /\ LoggerIdle /\ RaceIdle /\ ErrorIdle /\ LlmIdle /\ FactoryIdle
    /\ ChainIdle /\ RunnerIdle /\ NodeIdle /\ BatchIdle

\* one call load(path)
FileLoad ==
    \E path \in LoadPaths :
        \E r \in {load(files, path, fileRecords)} :
            /\ fileCalls < MaxLoads
            /\ fileLast' = Some([path |-> path, kind |-> r.kind,
                                 value |-> IF r.kind = "return" THEN Some(r.value) ELSE None,
                                 exc |-> IF r.kind = "raise" THEN Some(r.exc) ELSE None])
            /\ fileRecords' = r.records
            /\ fileCalls' = fileCalls + 1
            /\ UNCHANGED <<files, loggerVars, raceVars, errorVars, llmVars, factoryVars,
                           runnerVars, chainVars, nodeVars, batchVars>>

NextFile == FileLoad

SpecFile == InitFile /\ [][NextFile]_vars

-----------------------------------------------------------------------------
(* Claims on LLMChainResources.run *)

\* the last run rendered its prompt and reached the model call
ChainCalled ==
    /\ chainIn # None
    /\ chain[1].prompt.vars \subseteq DOMAIN chainIn[1].inputs

ChainFailure == ChainCalled /\ chainIn[1].outcome.kind = "raise"

\* the model identifier the chain's client was created for
ChainModelId == chain[1].llm.kwargs.model

RaisedTaxonomy(cls, status) ==
    /\ chainOut[1].kind = "raise"
    /\ chainOut[1].exc.cls = cls
    /\ chainOut[1].exc.status = status
    /\ "model_name" \in DOMAIN chainOut[1].exc.details
    /\ chainOut[1].exc.details.model_name = ChainModelId

\* C3: a throttling failure of the model call makes run raise a Rate-limit
\* error with status 429, any other failure with a non-success provider status
\* a Model-call error with status 502; both carry the model identifier in
\* details, and a throttling failure never gets the generic Model-call code.
C3_StatusFailuresClassified ==
    (ChainFailure /\ chainIn[1].outcome.exc \in StatusFailures) =>
        IF chainIn[1].outcome.exc.status_code = Some(429)
        THEN /\ RaisedTaxonomy("RateLimitExceededError", 429)
             /\ chainOut[1].exc.code = "RATE_LIMIT_EXCEEDED"
             /\ chainOut[1].exc.code # ClassAttr(ClassCode, "LLMError")
        ELSE /\ RaisedTaxonomy("LLMError", 502)
             /\ chainOut[1].exc.code = "LLM_ERROR"

\* C3 witness: a throttled call whose response is at hand was classified
C3_Witness ==
    /\ ChainFailure
    /\ chainIn[1].outcome.exc.cls = "RateLimitError"
    /\ chainIn[1].outcome.exc.response # None
    /\ chainOut[1].kind = "raise"
    /\ chainOut[1].exc.status = 429

\* C4: when the structured-output parser rejects the model's output, run fails
\* with a Parsing error of status 422 whose details contain the raw text.
C4_ParserFailureIsParsingError ==
    (/\ ChainCalled
     /\ chainIn[1].outcome.kind = "ok"
     /\ returns_pydantic(chain[1])
     /\ chainIn[1].outcome.raw.content.schema # chain[1].parser[1].schema) =>
        /\ chainOut[1].kind = "raise"
        /\ chainOut[1].exc.cls = "ParsingError"
        /\ chainOut[1].exc.status = 422
        /\ \E k \in DOMAIN chainOut[1].exc.details :
              chainOut[1].exc.details[k] = chainIn[1].outcome.raw.content.text

\* C5: every failure of the outbound model call reaches the caller of run as
\* an error of the taxonomy (an instance of BaseServiceError); none is
\* swallowed and none escapes unclassified.
C5_EveryFailureClassified ==
    ChainFailure =>
        /\ chainOut[1].kind = "raise"
        /\ IsSubclass(chainOut[1].exc.cls, "BaseServiceError")

-----------------------------------------------------------------------------
(* Claims on the node closure *)

NodeReturned == nlast # None /\ nlast[1].kind = "return"

\* what the last completed execution must have stored: the parsed items of
\* the model's text (cut by the output hook), flattened under the schema's field
NodeExpected ==
    LET c == nlast[1].outcome.raw.content
        items == IF nodeDef.make_outputs # None /\ Len(c.items) > 1
                 THEN <<c.items[1]>> ELSE c.items
    IN  [t |-> "dict",
         key |-> IF nodeDef.make_inputs = "make_goal_decomp_node_inputs"
                 THEN "subgoals" ELSE "task_outputs",
         items |-> items]

\* C2: in replace mode every execution leaves exactly one value, its own
\* result, under the output key, however often the node ran before; in
\* append mode every execution makes the sequence exactly one element longer.
C2_ReplaceOrGrowByOne ==
    NodeReturned =>
        IF nodeDef.state_append
        THEN /\ nstate[nodeDef.state_key].t = "list"
             /\ nstate[nodeDef.state_key].items
                    = Append(nprev[nodeDef.state_key].items, NodeExpected)
             /\ Len(nstate[nodeDef.state_key].items) = nruns
        ELSE /\ nstate[nodeDef.state_key].t # "list"
             /\ nstate[nodeDef.state_key] = NodeExpected

\* C2 witness: an append-mode node has run twice on the state, with two
\* different results
C2_Witness ==
    /\ NodeReturned
    /\ nruns = 2
    /\ nodeDef.state_append
    /\ Len(nstate.history.items) = 2
    /\ nstate.history.items[1] # nstate.history.items[2]

\* C9: a node without a state-modification hook leaves every key but its
\* output key as it was, whether it returns or raises; this covers the input
\* projectors, which run inside the node.
C9_OnlyOutputKeyChanges ==
    (nlast # None /\ nodeDef.modify_state = None) =>
        /\ DOMAIN nstate \ {nodeDef.state_key} = DOMAIN nprev \ {nodeDef.state_key}
        /\ \A k \in DOMAIN nprev \ {nodeDef.state_key} : nstate[k] = nprev[k]

\* C9 witness: the goal node, without hook, has replaced subgoals
C9_Witness ==
    /\ NodeReturned
    /\ nodeDef.modify_state = None
    /\ nodeDef.make_inputs = "make_goal_decomp_node_inputs"
    /\ nodeDef.state_key = "subgoals"
    /\ nstate.subgoals # nprev.subgoals

\* what chain_resources.run did in the last execution, worked out from the
\* state the node was called on
NodeChainRun ==
    LLMChainResourcesRun(nodeDef.chain_resources, NodeProject(nodeDef, nprev).value,
                         nlast[1].outcome)

\* C12: one node execution calls chain_resources.run exactly once when the
\* projection of its inputs succeeded (and never more than once); when that
\* call raised, the execution raised too, and what it raised is the very
\* exception run raised.
C12_OneCallFailurePropagates ==
    nlast # None =>
        /\ nlast[1].calls <= 1
        /\ NodeProject(nodeDef, nprev).kind = "return" =>
               /\ nlast[1].calls = 1
               /\ NodeChainRun.kind = "raise" =>
                      /\ nlast[1].kind = "raise"
                      /\ nlast[1].exc = NodeChainRun.exc

\* C12 witness: the model call of an execution was throttled and the node
\* raised the rate-limit error after one call
C12_Witness ==
    /\ nlast # None
    /\ nlast[1].kind = "raise"
    /\ nlast[1].calls = 1
    /\ nlast[1].outcome.kind = "raise"
    /\ nlast[1].exc.cls = "RateLimitExceededError"

-----------------------------------------------------------------------------
(* Claims on batch and on the traversal order *)

\* the flattened result of the model output traversal i got in node n
OwnResult(i, n) ==
    PyDict(IF n = "goal_decomp" THEN "subgoals" ELSE "task_outputs",
           bresp[i][n][1].raw.content.items)

\* node n of traversal i has written its result
HasWritten(i, n) ==
    /\ bruns[i][n] > 0
    /\ bpc[i].phase[n] = "idle"
    /\ bresp[i][n] # None
    /\ bresp[i][n][1].kind = "ok"
    /\ bresp[i][n][1].raw.content.schema
          = BatchGraph.nodes[n].chain_resources.parser[1].schema

\* C8: in a batch every field of every state is, at every moment of every
\* interleaving, fixed by that traversal's own input state and own model
\* responses: the context keys stay the input's, the model is called with
\* the traversal's own texts, and subgoals / tasks hold the traversal's own
\* results once written and the input's values before.
C8_BatchStatesIndependent ==
    \A i \in Traversals :
        /\ DOMAIN bstate[i] = DOMAIN binput[i]
        /\ bstate[i].user_queries = binput[i].user_queries
        /\ bstate[i].inputs = binput[i].inputs
        /\ bstate[i].subgoals = IF HasWritten(i, "goal_decomp")
                                THEN OwnResult(i, "goal_decomp")
                                ELSE binput[i].subgoals
        /\ bstate[i].tasks = IF HasWritten(i, "task_decomp")
                             THEN OwnResult(i, "task_decomp")
                             ELSE binput[i].tasks
        /\ \A n \in NodeNames :
              blocal[i][n].inputs # None =>
                  blocal[i][n].inputs[1].object_text = binput[i].inputs.object_text
        /\ (blocal[i]["task_decomp"].inputs # None =>
              blocal[i]["task_decomp"].inputs[1].subgoals_text
                  = <<"[">> \o bresp[i]["goal_decomp"][1].raw.content.items \o <<"]">>)

\* C8 witness: both traversals of a batch have ended, with different results
C8_Witness ==
    /\ TraversalDone(1)
    /\ TraversalDone(2)
    /\ bstate[1].subgoals # bstate[2].subgoals
    /\ bstate[1].tasks # bstate[2].tasks

\* C10: in a traversal each node is executed at most once and never while
\* the other is running; task_decomp starts only after goal_decomp has
\* written its result; a traversal that reaches END has run goal_decomp once,
\* then task_decomp once, and has nothing left to run.
C10_GoalThenTaskOnce ==
    \A i \in Traversals :
        /\ \A n \in NodeNames : bruns[i][n] <= 1
        /\ Cardinality({n \in NodeNames : bpc[i].phase[n] # "idle"}) <= 1
        /\ bruns[i]["task_decomp"] > 0 =>
              /\ HasWritten(i, "goal_decomp")
              /\ bstate[i].subgoals = OwnResult(i, "goal_decomp")
        /\ TraversalDone(i) =>
              /\ bruns[i]["goal_decomp"] = 1
              /\ bruns[i]["task_decomp"] = 1
              /\ HasWritten(i, "task_decomp")
              /\ \A n \in NodeNames : ~ENABLED StepProject(i, n)

\* C10 witness: a traversal has reached END after both nodes ran
C10_Witness ==
    /\ TraversalDone(1)
    /\ bruns[1]["goal_decomp"] = 1
    /\ bruns[1]["task_decomp"] = 1

-----------------------------------------------------------------------------
(* Claims on the runner (specification Spec) *)

\* C1: after any sequence of _get_llm calls of one runner, direct or made
\* by build_graph, create_llm has been called at most once for every cache
\* key, and all the calls that returned for one key returned one and the
\* same client instance, the one the cache holds for that key.
C1_OneClientPerKey ==
    /\ \A k \in DOMAIN createCalls : createCalls[k] <= 1
    /\ \A k \in DOMAIN returned :
           /\ k \in DOMAIN _llm_cache
           /\ returned[k] = {_llm_cache[k].id}
    /\ \A k1, k2 \in DOMAIN _llm_cache :
           _llm_cache[k1].id = _llm_cache[k2].id => k1 = k2

\* a direct _get_llm call has just returned a client that was cached
\* already, built by the one create_llm call for its key
C1_Witness ==
    /\ lastCall # None
    /\ lastCall[1].op = "_get_llm"
    /\ lastCall[1].kind = "return"
    /\ lastCall[1].hits = 1
    /\ \E k \in DOMAIN createCalls : createCalls[k] = 1
    /\ Cardinality(DOMAIN _llm_cache) = 2

\* C6: while no set_retriever has been called and build_graph has not
\* failed, build_graph has run exactly once as soon as one invoke or batch
\* call has been made and never more, and every call so far ran the one
\* compiled graph and execution config the runner still holds.
C6_BuiltOnceAndReused ==
    (swaps = 0 /\ ~buildFailed) =>
        /\ buildCalls = (IF ranWith # {} THEN 1 ELSE 0)
        /\ ranWith # {} =>
               /\ graph # None /\ graph_config # None
               /\ ranWith = {<<graph[1].id, graph_config[1]>>}

\* an invoke or batch call has just run the graph an earlier call built
C6_Witness ==
    /\ swaps = 0 /\ ~buildFailed /\ buildCalls = 1
    /\ lastCall # None
    /\ lastCall[1].op \in {"invoke", "batch"}
    /\ ~lastCall[1].built

\* the step just taken is a call of one of these operations on the runner
CallOf(ops) == lastCall' # None /\ lastCall'[1].op \in ops

\* C7: a set_retriever step leaves the runner without graph and graph
\* config and leaves the client cache as it was; the next invoke or batch
\* call, finding no graph, runs build_graph again; and from the swap on
\* every client in the cache stays in the cache under its key, is not built
\* again and is the instance returned for that key.
C7_SwapResetsGraphKeepsClients ==
    [][/\ CallOf({"set_retriever"}) =>
              /\ graph' = None /\ graph_config' = None
              /\ _llm_cache' = _llm_cache
       /\ (swaps > 0 /\ graph = None /\ CallOf({"invoke", "batch"})) =>
              buildCalls' = buildCalls + 1
       /\ swaps' > 0 =>
              \A k \in DOMAIN _llm_cache :
                  /\ k \in DOMAIN _llm_cache'
                  /\ _llm_cache'[k] = _llm_cache[k]
                  /\ createCalls'[k] = createCalls[k]
                  /\ returned'[k] = {_llm_cache[k].id}]_vars

\* after a swap an invoke or batch call has just rebuilt the graph, and both
\* its _get_llm calls returned clients cached before
C7_Witness ==
    /\ swaps > 0 /\ buildCalls = 2 /\ ~buildFailed
    /\ lastCall # None
    /\ lastCall[1].op \in {"invoke", "batch"}
    /\ lastCall[1].built
    /\ lastCall[1].hits = 2
    /\ graph # None

\* the canonical name an identifier stands for, when it is a member, a
\* canonical name or an alias of ModelNames
KnownIdentifier(mn) ==
    IF mn.enum THEN mn.name \in ModelKeys
    ELSE mn.name \in ModelValues \cup ModelKeys
CanonicalName(mn) ==
    IF ~mn.enum /\ mn.name \in ModelValues THEN mn.name ELSE ModelNames[mn.name]

\* C13: a _get_llm call whose identifier is a member, a canonical name or an
\* alias of ModelNames returns, and the client it returns is cached under
\* the key made of the canonical name and the other three arguments; a call
\* with any other identifier raises a ConfigError of the taxonomy and leaves
\* the cache as it was.
C13_IdentifierFormsAndConfigError ==
    [][CallOf({"_get_llm"}) =>
           LET rq == lastCall'[1].arg[1]
               key == <<CanonicalName(rq.model_name), rq.temperature,
                        rq.prompt_cache_key, rq.bind_tools>>
           IN  IF KnownIdentifier(rq.model_name)
               THEN /\ lastCall'[1].kind = "return"
                    /\ key \in DOMAIN _llm_cache'
                    /\ DOMAIN _llm_cache' = DOMAIN _llm_cache \cup {key}
               ELSE /\ lastCall'[1].kind = "raise"
                    /\ IsSubclass(lastCall'[1].exc[1].cls, "ConfigError")
                    /\ _llm_cache' = _llm_cache]_vars

\* C14: an invoke or batch call on a runner whose build_graph returns a
\* pair with no graph or no execution config raises GraphInitializeError
\* with status 500, runs no graph, and leaves the runner without graph or
\* without config; and every invoke or batch call that finds the runner so
\* runs build_graph.
C14_UnbuiltRaisesAndRebuilds ==
    [][CallOf({"invoke", "batch"}) =>
           /\ (graph = None \/ graph_config = None) =>
                  /\ lastCall'[1].built
                  /\ buildCalls' = buildCalls + 1
           /\ runnerClass \in {"NoGraphRunner", "NoConfigRunner", "NothingRunner"} =>
                  /\ lastCall'[1].kind = "raise"
                  /\ lastCall'[1].exc[1].cls = "GraphInitializeError"
                  /\ lastCall'[1].exc[1].status = 500
                  /\ ranWith' = ranWith
                  /\ (graph' = None \/ graph_config' = None)]_vars

\* C14 witness: the second call in a row has run build_graph and raised
\* GraphInitializeError on a runner whose build_graph gives a graph and no
\* config
C14_Witness ==
    /\ runnerClass = "NoConfigRunner"
    /\ buildCalls = 2
    /\ graph # None /\ graph_config = None
    /\ lastCall # None
    /\ lastCall[1].op \in {"invoke", "batch"}
    /\ lastCall[1].kind = "raise"
    /\ lastCall[1].exc[1].cls = "GraphInitializeError"
    /\ ranWith = {}

-----------------------------------------------------------------------------
(* Claims on the errors (specification SpecErrors) *)

\* the error last constructed has the four fields, and its details is a dict
\* of its own that holds what the caller's mapping held at construction
ErrorHasFields ==
    /\ {"code", "status", "domain", "details"} \subseteq DOMAIN errObj[1]
    /\ errObj[1].status \in Nat
    /\ errObj[1].details # CallerMapping
    /\ errObj[1].details \in DOMAIN mappings
    /\ mappings[errObj[1].details]
           = (IF errArgs[1].details = None THEN EmptyDict ELSE errArgs[1].details[1])

\* C15 as claimed: every constructed error has a code, a numeric status, a
\* domain and a details mapping of its own; a field that was not given has
\* the default of the class, and a field that was given, whatever its value,
\* is kept as given.
C15_GivenFieldsKept ==
    errObj # None =>
        /\ ErrorHasFields
        /\ errObj[1].code = (IF errArgs[1].code = None
                             THEN ClassAttr(ClassCode, errArgs[1].cls)
                             ELSE errArgs[1].code[1])
        /\ errObj[1].status = (IF errArgs[1].status = None
                               THEN ClassAttr(ClassStatus, errArgs[1].cls)
                               ELSE errArgs[1].status[1])
        /\ errObj[1].domain = (IF errArgs[1].domain = None
                               THEN ClassAttr(ClassDomain, errArgs[1].cls)
                               ELSE errArgs[1].domain[1])

\* C15 as amended: as above, but a code or domain given as the empty string
\* and a status given as 0 count as not given and take the default of the
\* class; every other given field is kept as given.
C15_TruthyFieldsKept ==
    errObj # None =>
        /\ ErrorHasFields
        /\ errObj[1].code = (IF errArgs[1].code \in {None, Some("")}
                             THEN ClassAttr(ClassCode, errArgs[1].cls)
                             ELSE errArgs[1].code[1])
        /\ errObj[1].status = (IF errArgs[1].status \in {None, Some(0)}
                               THEN ClassAttr(ClassStatus, errArgs[1].cls)
                               ELSE errArgs[1].status[1])
        /\ errObj[1].domain = (IF errArgs[1].domain \in {None, Some("")}
                               THEN ClassAttr(ClassDomain, errArgs[1].cls)
                               ELSE errArgs[1].domain[1])

\* C15 witness: an error was given a status, an empty code and a filled
\* mapping, and the caller has written into its mapping since
C15_Witness ==
    /\ errObj # None
    /\ errArgs[1].status = Some(418) /\ errObj[1].status = 418
    /\ errArgs[1].code = Some("") /\ errObj[1].code # ""
    /\ errArgs[1].domain = None
    /\ errArgs[1].details # None /\ errArgs[1].details[1] # EmptyDict
    /\ "retry_after" \in DOMAIN mappings[CallerMapping]
    /\ "retry_after" \notin DOMAIN mappings[errObj[1].details]

\* the statuses of the taxonomy table, by the class of each kind
TaxonomyTable ==
    [ConfigError |-> 500, ParsingError |-> 422, LLMError |-> 502,
     RateLimitExceededError |-> 429, GraphExecutionError |-> 500,
     GraphInitializeError |-> 500, UtilsValidationError |-> 400]

\* C16: an error of one of the seven kinds constructed without a status (or
\* without a code) has the status of the taxonomy table (a code no other
\* kind has), and a rate-limit error is an instance of the model-call error.
C16_TaxonomyStatuses ==
    (errObj # None /\ errArgs[1].cls \in DOMAIN TaxonomyTable) =>
        /\ errArgs[1].status = None =>
               errObj[1].status = TaxonomyTable[errArgs[1].cls]
        /\ errArgs[1].code = None =>
               \A other \in DOMAIN TaxonomyTable \ {errArgs[1].cls} :
                   errObj[1].code # ClassAttr(ClassCode, other)
        /\ errArgs[1].cls = "RateLimitExceededError" =>
               /\ IsSubclass(errObj[1].cls, "LLMError")
               /\ errObj[1].cls # "LLMError"

\* C16 witness: a rate-limit error was constructed with no field given
C16_Witness ==
    /\ errObj # None
    /\ errArgs[1].cls = "RateLimitExceededError"
    /\ errArgs[1].status = None /\ errArgs[1].code = None
    /\ errObj[1].status = 429
    /\ errObj[1].code = "RATE_LIMIT_EXCEEDED"

-----------------------------------------------------------------------------
(* Claims on create_llm (specification SpecLlm) *)

\* C17: create_llm returns a client for every model and temperature; for
\* gpt-5, gpt-5-mini and gpt-5-nano the client is built with no temperature
\* setting, for every other model with exactly the temperature asked for.
C17_TemperaturePolicy ==
    llmArgs # None =>
        /\ llmObj # None
        /\ llmObj[1].kwargs.model = ModelNames[llmArgs[1].model_name]
        /\ IF ModelNames[llmArgs[1].model_name] \in {"gpt-5", "gpt-5-mini", "gpt-5-nano"}
           THEN "temperature" \notin DOMAIN llmObj[1].kwargs
           ELSE /\ "temperature" \in DOMAIN llmObj[1].kwargs
                /\ llmObj[1].kwargs.temperature = llmArgs[1].temperature

\* C17 witness: a gpt-5-mini client was asked for with temperature 0.7 and
\* built without one
C17_Witness ==
    /\ llmArgs # None
    /\ llmArgs[1].model_name = "gpt5mini"
    /\ llmArgs[1].temperature = 7
    /\ llmObj[1].kwargs.model = "gpt-5-mini"
    /\ "temperature" \notin DOMAIN llmObj[1].kwargs

-----------------------------------------------------------------------------
(* Format instructions of a chain resource and their injection by the node *)

\* the node's chain resource carries its format instructions into this call:
\* it has some, and the inputs dict handed to chain_resources.run holds them
\* under "format_instructions"
InstructionsRendered ==
    LET cr == nodeDef.chain_resources
    IN  /\ cr.format_instructions # ""
        /\ nlast[1].calls >= 1 =>
              /\ "format_instructions" \in DOMAIN nlast[1].inputs[1]
              /\ nlast[1].inputs[1].format_instructions = cr.format_instructions

\* C18 as stated: every chain resource _build_llm_chain gave a parser has
\* non-empty format instructions, and every node execution using it puts them
\* into the inputs rendered into the prompt.
C18_ParserPresentInstructionsRendered ==
    (nlast # None /\ nodeDef.chain_resources.parser # None)
        => InstructionsRendered

\* C18 amended: the same for every chain resource whose parser is a
\* PydanticOutputParser (the StrOutputParser installed by default has no
\* format instructions and nothing is injected for it).
C18_PydanticParserInstructionsRendered ==
    (nlast # None /\ returns_pydantic(nodeDef.chain_resources))
        => InstructionsRendered

\* a node with a PydanticOutputParser has called its chain with the projected
\* inputs and returned
C18_Witness ==
    /\ nlast # None
    /\ returns_pydantic(nodeDef.chain_resources)
    /\ nlast[1].kind = "return"
    /\ nlast[1].calls = 1
    /\ nlast[1].inputs[1].format_instructions
           = nodeDef.chain_resources.format_instructions

-----------------------------------------------------------------------------
(* The task records a finished traversal has stored *)

\* the objects an inventory text lists
ObjectsListed(object_text) ==
    {object_text.lines[i].object_name : i \in DOMAIN object_text.lines}

\* every entry stored under tasks in traversal i's state has skills of the
\* closed set only
StoredSkillsKnown(i) ==
    \A k \in DOMAIN bstate[i].tasks.items :
        \A j \in DOMAIN TaskEntry(bstate[i].tasks.items[k]).tasks :
            TaskEntry(bstate[i].tasks.items[k]).tasks[j].skill \in SubTaskSkills

\* every entry stored under tasks in traversal i's state has targets of the
\* state's inventory only
StoredTargetsListed(i) ==
    \A k \in DOMAIN bstate[i].tasks.items :
        \A j \in DOMAIN TaskEntry(bstate[i].tasks.items[k]).tasks :
            TaskEntry(bstate[i].tasks.items[k]).tasks[j].target
                \in ObjectsListed(bstate[i].inputs.object_text)

\* C19: every task stored under tasks in a final state of the goal-to-task
\* pipeline is a subgoal record whose skills are all of GoToObject, PickObject,
\* PlaceObject and whose targets all name an object of that state's inventory;
\* an output that breaks this is never stored.
C19_StoredTasksValid ==
    \A i \in Traversals :
        TraversalDone(i) => StoredSkillsKnown(i) /\ StoredTargetsListed(i)

-----------------------------------------------------------------------------
(* The states BaseStateMaker.make returns *)

\* the value objects a state dict holds
ObjectsOf(top) == {top[k] : k \in DOMAIN top}

\* C20: every make(user_query) returns a new state with user_queries equal
\* to [user_query], the inputs just made and empty subgoals and tasks, sharing
\* no object with the base state or another returned state; and every
\* operation (a make, a key replaced, a list appended to) leaves the value of
\* the base state and of every returned state other than the one it acts on
\* as it was.
C20_MakeFreshAndIndependent ==
    [][flast' # None =>
        /\ flast'[1].op = "make" =>
              /\ flast'[1].state \notin DOMAIN fstates
              /\ StateValue(fheap', fstates'[flast'[1].state])
                    = MakeState(flast'[1].user_query,
                                make_object_text(flast'[1].objects), "skills")
              /\ \A t \in DOMAIN fstates :
                    ObjectsOf(fstates'[flast'[1].state]) \cap ObjectsOf(fstates[t]) = {}
        /\ \A t \in DOMAIN fstates \ {flast'[1].state} :
              StateValue(fheap', fstates'[t]) = StateValue(fheap, fstates[t])
    ]_vars

\* the first state was written to in both ways, then a second state was made:
\* it is empty, and so is the base state
C20_Witness ==
    /\ flast # None /\ flast[1].op = "make" /\ flast[1].state = 2
    /\ fheap[fstates[1].subgoals].t = "dict"
    /\ fheap[fstates[1].tasks] = PyList(<<"r1">>)
    /\ fheap[fstates[2].subgoals] = PyList(<<>>)
    /\ fheap[fstates[2].tasks] = PyList(<<>>)
    /\ StateValue(fheap, fstates[0]) = _make_base_state

-----------------------------------------------------------------------------
(* Details of the Rate-limit error *)

\* the last run was a throttled model call
ChainThrottled ==
    /\ ChainFailure
    /\ chainIn[1].outcome.exc.cls = "RateLimitError"
    /\ chainOut[1].kind = "raise"

\* the headers the provider sent with the failure: none when there is no
\* response or its headers are no mapping
SentHeaders ==
    IF chainIn[1].outcome.exc.response = None THEN EmptyDict
    ELSE IF chainIn[1].outcome.exc.response[1].headers.mapping
    THEN chainIn[1].outcome.exc.response[1].headers.items
    ELSE EmptyDict

\* details["ratelimit"] holds, besides the model name, exactly the rate-limit
\* counts the provider sent, each with the number sent
RateLimitCountsAsSent ==
    LET ratelimit == chainOut[1].exc.details.ratelimit
    IN  /\ DOMAIN ratelimit \ {"model_name"} = HeaderParsers \cap DOMAIN SentHeaders
        /\ \A k \in DOMAIN ratelimit \ {"model_name"} :
              ratelimit[k] = IntOfText(SentHeaders[k])

\* C21 as stated: the details of the Rate-limit error have no entry for a
\* value the provider did not send (retry-after, rate-limit counts), and hold
\* every such value it sent.
C21_MissingValuesHaveNoEntry ==
    ChainThrottled =>
        /\ RateLimitCountsAsSent
        /\ "retry_after" \in DOMAIN chainOut[1].exc.details
              <=> "retry-after" \in DOMAIN SentHeaders
        /\ "retry-after" \in DOMAIN SentHeaders =>
              chainOut[1].exc.details.retry_after = Some(SentHeaders["retry-after"])

\* C21 amended: the rate-limit counts the provider did not send have no entry,
\* those it sent are held as sent; retry_after is always an entry, holding the
\* value sent, and None (no invented value) when none was sent.
C21_MissingValuesAbsentOrNone ==
    ChainThrottled =>
        /\ RateLimitCountsAsSent
        /\ "retry_after" \in DOMAIN chainOut[1].exc.details
        /\ chainOut[1].exc.details.retry_after =
              IF "retry-after" \in DOMAIN SentHeaders
              THEN Some(SentHeaders["retry-after"]) ELSE None

\* a throttled call without a provider response was classified: retry_after
\* is None and no count is held
C21_Witness ==
    /\ ChainThrottled
    /\ chainIn[1].outcome.exc.response = None
    /\ chainOut[1].exc.details.retry_after = None
    /\ DOMAIN chainOut[1].exc.details.ratelimit = {"model_name"}

-----------------------------------------------------------------------------
(* The header mapping of a successful run *)

\* the model call of the last run returned a message
ChainAnswered == ChainCalled /\ chainIn[1].outcome.kind = "ok"

\* the response headers that came with the message, when they are a mapping
MessageHeaders ==
    IF chainIn[1].outcome.raw.headers = None THEN EmptyDict
    ELSE IF chainIn[1].outcome.raw.headers[1].mapping
    THEN chainIn[1].outcome.raw.headers[1].items
    ELSE EmptyDict

\* the token usage that came with the message
MessageUsage ==
    IF chainIn[1].outcome.raw.token_usage = None THEN EmptyDict
    ELSE chainIn[1].outcome.raw.token_usage[1]

\* C22: the header mapping a successful run returns holds the model name, the
\* x-ratelimit limit / remaining headers the provider sent and total_tokens
\* when the provider sent it, each with the number sent, and nothing else;
\* whatever headers are missing, a run whose model call returned fails only
\* when the parser rejects the output.
C22_OnlyRecognizedHeaders ==
    ChainAnswered =>
        IF chainOut[1].kind = "return"
        THEN /\ DOMAIN chainOut[1].headers
                  = {"model_name"} \cup (HeaderParsers \cap DOMAIN MessageHeaders)
                        \cup ({"total_tokens"} \cap DOMAIN MessageUsage)
             /\ chainOut[1].headers.model_name = ChainModelId
             /\ \A k \in HeaderParsers \cap DOMAIN MessageHeaders :
                   chainOut[1].headers[k] = IntOfText(MessageHeaders[k])
             /\ "total_tokens" \in DOMAIN MessageUsage =>
                   chainOut[1].headers.total_tokens = MessageUsage.total_tokens
        ELSE chainOut[1].exc.cls = "OutputParserException"

\* a run returned on a message that came with a retry-after header, one
\* rate-limit count and no token usage: only the count is handed on
C22_Witness ==
    /\ ChainAnswered
    /\ chainOut[1].kind = "return"
    /\ "retry-after" \in DOMAIN MessageHeaders
    /\ chainIn[1].outcome.raw.token_usage = None
    /\ DOMAIN chainOut[1].headers = {"model_name", "x-ratelimit-remaining-requests"}

-----------------------------------------------------------------------------
(* Racing _get_llm calls *)

\* the client stored first under cache key k
FirstStored(k) ==
    rstores[CHOOSE i \in DOMAIN rstores :
                /\ rstores[i].key = k
                /\ \A j \in 1 .. (i - 1) : rstores[j].key # k].llm

\* C23: when _get_llm calls for one cache key race, the instance stored first
\* stays the cached instance of the key (a stored client is never replaced by
\* another instance) and every call that begins after that store returns it.
C23_FirstWriterWins ==
    /\ \A k \in DOMAIN rcache : rcache[k] = FirstStored(k)
    /\ \A t \in DOMAIN rthread :
          (/\ rthread[t].returned # None
           /\ \E i \in 1 .. rthread[t].began : rstores[i].key = rthread[t].key[1])
             => rthread[t].returned[1] = FirstStored(rthread[t].key[1])

-----------------------------------------------------------------------------
(* The order of the steps of one node execution *)

\* the value the last completed execution left at the end of, or under, the
\* output key
NodeStored ==
    IF nodeDef.state_append
    THEN nstate[nodeDef.state_key].items[Len(nstate[nodeDef.state_key].items)]
    ELSE nstate[nodeDef.state_key]

\* C24: a completed node execution has projected the inputs, injected the
\* format instructions and called the chain once with them; the value it
\* appended or stored is the result after the output-transform hook and the
\* flattening; and the state-modification hook was given that same result and
\* the state as it was before the output key was written.
C24_StepsInOrder ==
    NodeReturned =>
        /\ nlast[1].calls = 1
        /\ nlast[1].inputs[1] = NodeProject(nodeDef, nprev).value
        /\ nlast[1].inputs[1].format_instructions
              = nodeDef.chain_resources.format_instructions
        /\ NodeStored = NodeExpected
        /\ nodeDef.modify_state = Some("record_feedback") =>
              /\ nstate.feedback_result.result = NodeExpected
              /\ nstate.feedback_result.history_len = Len(nprev.history.items)
              /\ nodeDef.state_key = "history" =>
                    Len(nstate.history.items) = nstate.feedback_result.history_len + 1

\* an append-mode node with both hooks has run a second time on a model
\* output of two items: the hook found the one earlier entry, and the entry
\* added is the cut and flattened result
C24_Witness ==
    /\ NodeReturned
    /\ nodeDef.state_append
    /\ nodeDef.make_outputs # None
    /\ nodeDef.modify_state = Some("record_feedback")
    /\ Len(nlast[1].outcome.raw.content.items) = 2
    /\ nstate.feedback_result.history_len = 1
    /\ Len(nstate.history.items) = 2
    /\ Len(NodeStored.items) = 1

-----------------------------------------------------------------------------
(* The state after a failed chain call *)

\* the last execution made its chain call and the call raised
NodeChainFailed ==
    /\ nlast # None
    /\ nlast[1].kind = "raise"
    /\ nlast[1].calls = 1

\* C25: when the chain call of a node fails, the state the node was given is
\* left exactly as it was: nothing is stored or appended under the output key
\* and the state-modification hook is not applied.  So a failure of
\* task_decomp on a state goal_decomp has written leaves those subgoals in
\* the state and tasks unwritten.
C25_FailedCallLeavesState ==
    NodeChainFailed =>
        /\ nstate = nprev
        /\ "feedback_result" \in DOMAIN nstate =>
              nstate.feedback_result = nprev.feedback_result
        /\ (nodeDef.make_inputs = "make_task_decomp_node_inputs"
              /\ nprev.subgoals.t = "dict" /\ nprev.tasks = PyList(<<>>)) =>
                 /\ nstate.subgoals = nprev.subgoals
                 /\ nstate.tasks = PyList(<<>>)

\* task_decomp, with a state-modification hook, was throttled on a state in
\* which goal_decomp had written its subgoals: they are still there, tasks is
\* the empty list and the hook has left no trace
C25_Witness ==
    /\ NodeChainFailed
    /\ nodeDef.make_inputs = "make_task_decomp_node_inputs"
    /\ nodeDef.state_key = "tasks"
    /\ nodeDef.modify_state = Some("record_feedback")
    /\ nlast[1].exc.cls = "RateLimitExceededError"
    /\ nstate.subgoals = PyDict("subgoals", <<"sg0">>)
    /\ nstate.tasks = PyList(<<>>)
    /\ "feedback_result" \notin DOMAIN nstate

-----------------------------------------------------------------------------
(* The subgoals text of the task_decomp call *)

\* C26: in every traversal goal_decomp stores a mapping with its subgoals list
\* under the subgoals key, and the subgoals text task_decomp's model call is
\* given lists exactly the subgoals goal_decomp produced in that traversal,
\* in their order; applied to a fresh state, whose subgoals is the empty list,
\* the task projector raises.
C26_SubgoalsTextFromGoalNode ==
    \A i \in Traversals :
        /\ HasWritten(i, "goal_decomp") =>
              /\ bstate[i].subgoals.t = "dict"
              /\ bstate[i].subgoals.key = "subgoals"
              /\ bstate[i].subgoals.items = bresp[i].goal_decomp[1].raw.content.items
        /\ blocal[i].task_decomp.inputs # None =>
              /\ HasWritten(i, "goal_decomp")
              /\ blocal[i].task_decomp.inputs[1].subgoals_text
                    = <<"[">> \o bresp[i].goal_decomp[1].raw.content.items \o <<"]">>
        /\ binput[i].subgoals = PyList(<<>>)
        /\ make_task_decomp_node_inputs(binput[i]).kind = "raise"
        /\ make_task_decomp_node_inputs(binput[i]).exc.cls = "AttributeError"

\* a traversal is about to call the task model after goal_decomp produced two
\* subgoals: the text lists the two in order
C26_Witness ==
    \E i \in Traversals :
        /\ bpc[i].phase.task_decomp = "call"
        /\ bresp[i].goal_decomp = Some(Ok(Message(GoalText, None, None)))
        /\ blocal[i].task_decomp.inputs[1].subgoals_text = <<"[", "sg1", "sg2", "]">>

-----------------------------------------------------------------------------
(* The cache key and the client's configuration *)

\* cache keys k1 and k2 differ in the position pos only
DifferOnlyIn(k1, k2, pos) ==
    /\ k1[pos] # k2[pos]
    /\ \A p \in (1 .. 4) \ {pos} : k1[p] = k2[p]

\* C27: the cache key holds the temperature and the tool-binding flag as
\* requested: every _get_llm call that returns leaves a client under the key
\* of its own arguments, and two cached keys that differ only in the
\* temperature, for a default-temperature-only model, or only in bind_tools,
\* for any model, hold two separate instances with the same configuration.
C27_KeyFromRequestNotConfiguration ==
    /\ (lastCall # None /\ lastCall[1].op = "_get_llm" /\ lastCall[1].kind = "return") =>
          <<CanonicalName(lastCall[1].arg[1].model_name),
            lastCall[1].arg[1].temperature,
            lastCall[1].arg[1].prompt_cache_key,
            lastCall[1].arg[1].bind_tools>> \in DOMAIN _llm_cache
    /\ \A k1, k2 \in DOMAIN _llm_cache :
          (\/ DifferOnlyIn(k1, k2, 4)
           \/ /\ DifferOnlyIn(k1, k2, 2)
              /\ MemberOfValue(k1[1]) \in _DEFAULT_TEMPERATURE_ONLY_MODELS) =>
             /\ _llm_cache[k1].id # _llm_cache[k2].id
             /\ _llm_cache[k1].kwargs = _llm_cache[k2].kwargs

\* gpt-5 was requested with temperature 0.0 and with 0.7: two clients are
\* cached, neither configured with a temperature
C27_Witness ==
    /\ <<"gpt-5", 0, None, FALSE>> \in DOMAIN _llm_cache
    /\ <<"gpt-5", 7, None, FALSE>> \in DOMAIN _llm_cache
    /\ _llm_cache[<<"gpt-5", 0, None, FALSE>>].id # _llm_cache[<<"gpt-5", 7, None, FALSE>>].id
    /\ "temperature" \notin DOMAIN _llm_cache[<<"gpt-5", 7, None, FALSE>>].kwargs

-----------------------------------------------------------------------------
(* Claims on get_logger *)

\* the number of handlers of class cls in a handler list
RECURSIVE HandlerCount(_, _)
HandlerCount(handlers, cls) ==
    IF handlers = <<>> THEN 0
    ELSE (IF Head(handlers).cls = cls THEN 1 ELSE 0) + HandlerCount(Tail(handlers), cls)

\* the last call was made for a name whose logger already had handlers
CalledConfiguredLogger ==
    /\ logLast # None
    /\ logLast[1].before # None
    /\ logLast[1].before[1].handlers # <<>>

\* C28: after any sequence of get_logger calls every logger has at most one
\* console handler (StreamHandler) and at most one file handler
\* (RotatingFileHandler); a call for a name whose logger already has handlers
\* returns that same logger, raises nothing and leaves its handlers as they
\* were, whatever is_save and filename are.
C28_AtMostOneHandlerOfEachKind ==
    /\ \A n \in DOMAIN loggerDict :
          /\ HandlerCount(loggerDict[n].handlers, "StreamHandler") <= 1
          /\ HandlerCount(loggerDict[n].handlers, "RotatingFileHandler") <= 1
    /\ CalledConfiguredLogger =>
          /\ logLast[1].kind = "return"
          /\ loggerDict[logLast[1].logger].id = logLast[1].before[1].id
          /\ loggerDict[logLast[1].logger].handlers = logLast[1].before[1].handlers

\* a logger set up without a file is asked for again with is_save and a
\* filename, and another logger has its console and its file handler
C28_Witness ==
    /\ CalledConfiguredLogger
    /\ logLast[1].is_save /\ logLast[1].filename = Some("logs/run.log")
    /\ logLast[1].logger = "robot_agent"
    /\ loggerDict["robot_agent"].handlers = <<StreamHandler>>
    /\ "src.utils.file" \in DOMAIN loggerDict
    /\ Len(loggerDict["src.utils.file"].handlers) = 2

-----------------------------------------------------------------------------
(* Claims on load *)

\* the last load was called with a path whose extension is not supported
LoadedUnsupported ==
    /\ fileLast # None
    /\ fileLast[1].path[Len(fileLast[1].path)] \notin SupportedExtensions

\* C29: load called with a path whose extension is not one of txt, csv,
\* json, yaml, pkl raises a Validation error (UtilsValidationError, code
\* VALIDATION_ERROR, status 400) whose details name the extension, and the
\* caller receives this very error.
C29_UnsupportedExtensionRaisesValidation ==
    LoadedUnsupported =>
        /\ fileLast[1].kind = "raise"
        /\ fileLast[1].exc[1].cls = "UtilsValidationError"
        /\ fileLast[1].exc[1].code = "VALIDATION_ERROR"
        /\ fileLast[1].exc[1].status = 400
        /\ fileLast[1].exc[1].details =
              ("extension" :> fileLast[1].path[Len(fileLast[1].path)])

=============================================================================
